---- MODULE Spec2Model ----
(***************************************************************************)
(* Model of the local natural-language resolution engine of                *)
(* ia-erp-universal: text normalisation and lexical scoring                *)
(* (ConfigLoader), module/action/endpoint classification (IALocalService), *)
(* and the session orchestration of IAInterpreterService.                  *)
(*                                                                         *)
(* Texts are sequences of words (the whitespace-separated tokens of the    *)
(* source strings).  Scores are fixed-point numbers in thousandths         *)
(* (1.0 = 1000).  Time is counted in minutes.                              *)
(***************************************************************************)
EXTENDS Integers, Sequences, FiniteSets, TLC

(***************************************************************************)
(* Words and strings                                                       *)
(***************************************************************************)

\* String.prototype.toLowerCase on one word.
Lower(w) ==
  CASE w = "ACME" -> "acme"
    [] w = "Crear" -> "crear"
    [] w = "Ventas" -> "ventas"
    [] w = "VentasOnline" -> "ventasonline"
    [] w = "Clinico" -> "clinico"
    [] OTHER -> w

ToLower(text) == [i \in DOMAIN text |-> Lower(text[i])]

\* Proper substrings among the words of the model: <<a, b>> when a contains b.
SubstringPairs ==
  { <<"clientes", "cliente">>, <<"pacientes", "paciente">>, <<"ventas", "venta">>,
    <<"api", "ia">>, <<"ventasonline", "ventas">>, <<"ventasonline", "venta">>,
    <<"leer", "lee">> }

\* a.includes(b) for single words.
Includes(a, b) == a = b \/ <<a, b>> \in SubstringPairs

\* word.length > 2
LongWord(w) == w \notin {"es", "el", "de", "la", "un", "?", ":", "ia", "v1", ""}

Range(s) == {s[i] : i \in DOMAIN s}

\* Array.prototype.filter
RECURSIVE FilterSeq(_, _)
FilterSeq(s, keep) ==
  IF s = <<>> THEN <<>>
  ELSE IF Head(s) \in keep THEN <<Head(s)>> \o FilterSeq(Tail(s), keep)
       ELSE FilterSeq(Tail(s), keep)

RECURSIVE SumSeq(_)
SumSeq(s) == IF s = <<>> THEN 0 ELSE Head(s) + SumSeq(Tail(s))

\* F applied to the value of e, with e evaluated once (a const declaration).
WithValue(e, F(_)) == CHOOSE r \in { F(x) : x \in {e} } : TRUE

Min(a, b) == IF a < b THEN a ELSE b
Max(a, b) == IF a > b THEN a ELSE b

\* new RegExp(pattern).test(text) for a pattern that is a run of words, where
\* the placeholder [algo] (rewritten to \w+) stands for any one word.
PatternMatches(pattern, text) ==
  /\ pattern # <<>>
  /\ \E i \in 1..Len(text) :
       /\ i + Len(pattern) - 1 <= Len(text)
       /\ \A j \in 1..Len(pattern) :
            pattern[j] = "[algo]" \/ pattern[j] = text[i + j - 1]

(***************************************************************************)
(* Vocabulary configuration (ConfigMapping), loaded once                   *)
(***************************************************************************)

SCALE == 1000

\* settings.umbralMinimoConfianza (0.1)
umbralMinimoConfianza == 100

Config ==
  [ version |-> "1.0.0",
    settings |-> [ umbralMinimoConfianza |-> umbralMinimoConfianza ],
    normalizacion |->
      [ correccionesOrtograficas |-> << <<"crera", "crear">>, <<"clente", "cliente">> >>,
        eliminarPalabras |-> << "porfavor" >>,
        palabrasVacias |-> << "el", "de" >> ],
    vocabulario |->
      [ modulos |->
          [ VENTAS  |-> [ palabrasClave |-> << "cliente", "venta" >>,
                          palabrasRelacionadas |-> << "monto", "nombre" >> ],
            CLINICO |-> [ palabrasClave |-> << "paciente" >>,
                          palabrasRelacionadas |-> << "filtro" >> ] ],
        acciones |->
          [ CREATE |-> [ palabrasClave |-> << "crear" >>,
                         sinonimos |-> << "registrar" >>,
                         expresionesTipicas |-> << <<"crear", "[algo]">> >> ],
            READ   |-> [ palabrasClave |-> << "listar", "buscar" >>,
                         sinonimos |-> << "ver" >>,
                         expresionesTipicas |-> << >> ] ] ],
    patrones |->
      [ detectarAccion |-> [ CREATE |-> << >>, READ |-> << >> ],
        detectarModulo |-> [ VENTAS |-> << >>, CLINICO |-> << >> ],
        \* parameter kinds that have an extraction template "<kind> (\S+)"
        extraerParametros |-> { "nombre", "monto", "filtro" } ],
    puntuacion |->
      [ modulo |-> [ coincidenciaExacta |-> 1000, coincidenciaPalabraCompleta |-> 1000,
                     coincidenciaParcial |-> 500, palabraRelacionada |-> 200,
                     umbralMinimo |-> 500 ],
        accion |-> [ coincidenciaExacta |-> 1000, coincidenciaPalabraCompleta |-> 1000,
                     coincidenciaParcial |-> 500, expresionTipica |-> 500,
                     umbralMinimo |-> 500 ] ],
    defaults |-> [ moduloPorDefecto |-> "VENTAS", accionPorDefecto |-> "READ" ] ]

\* Object.keys order of vocabulario.modulos / vocabulario.acciones
ModulosConfigurados == << "VENTAS", "CLINICO" >>
AccionesConfiguradas == << "CREATE", "READ" >>

getUmbralMinimoConfianza == Config.settings.umbralMinimoConfianza
getPalabrasClaveModulo(m) ==
  IF m \in DOMAIN Config.vocabulario.modulos
  THEN Config.vocabulario.modulos[m].palabrasClave ELSE <<>>
getPalabrasRelacionadasModulo(m) ==
  IF m \in DOMAIN Config.vocabulario.modulos
  THEN Config.vocabulario.modulos[m].palabrasRelacionadas ELSE <<>>
getPalabrasClaveAccion(a) ==
  IF a \in DOMAIN Config.vocabulario.acciones
  THEN Config.vocabulario.acciones[a].palabrasClave ELSE <<>>
getSinonimosAccion(a) ==
  IF a \in DOMAIN Config.vocabulario.acciones
  THEN Config.vocabulario.acciones[a].sinonimos ELSE <<>>
getExpresionesTipicasAccion(a) ==
  IF a \in DOMAIN Config.vocabulario.acciones
  THEN Config.vocabulario.acciones[a].expresionesTipicas ELSE <<>>
getPatronesAccion(a) ==
  IF a \in DOMAIN Config.patrones.detectarAccion
  THEN Config.patrones.detectarAccion[a] ELSE <<>>
getPatronesModulo(m) ==
  IF m \in DOMAIN Config.patrones.detectarModulo
  THEN Config.patrones.detectarModulo[m] ELSE <<>>
getPuntuacionModulo == Config.puntuacion.modulo
getPuntuacionAccion == Config.puntuacion.accion
getModuloPorDefecto == Config.defaults.moduloPorDefecto
getAccionPorDefecto == Config.defaults.accionPorDefecto
getPalabrasVacias == Config.normalizacion.palabrasVacias

(***************************************************************************)
(* ConfigLoader.normalizarTexto                                            *)
(***************************************************************************)

\* One spelling correction, whole-word: /\berror\b/gi -> correccion
ApplyCorrection(text, pair) ==
  [i \in DOMAIN text |-> IF text[i] = pair[1] THEN pair[2] ELSE text[i]]

RECURSIVE ApplyCorrections(_, _)
ApplyCorrections(text, pairs) ==
  IF pairs = <<>> THEN text
  ELSE ApplyCorrections(ApplyCorrection(text, Head(pairs)), Tail(pairs))

\* /\s+\bpalabra\b\s+/gi -> ' ' : an occurrence is removed only when it has
\* white space on both sides, and a match consumes the white space that the
\* next word would need in front of it.
RECURSIVE DropStopWord(_, _, _)
DropStopWord(text, palabra, prevSpace) ==
  IF text = <<>> THEN <<>>
  ELSE IF Head(text) = palabra /\ prevSpace /\ Len(text) > 1
       THEN DropStopWord(Tail(text), palabra, FALSE)
       ELSE <<Head(text)>> \o DropStopWord(Tail(text), palabra, TRUE)

RECURSIVE DropStopWords(_, _)
DropStopWords(text, palabras) ==
  IF palabras = <<>> THEN text
  ELSE DropStopWords(DropStopWord(text, Head(palabras), FALSE), Tail(palabras))

\* normalizarTexto under a given normalizacion section of the configuration
normalizarTextoCon(normalizacion, texto) ==
  IF texto = <<>> THEN <<>>
  ELSE LET lowered == ToLower(texto)
           corrected == ApplyCorrections(lowered, normalizacion.correccionesOrtograficas)
           kept == FilterSeq(corrected,
                     Range(corrected) \ Range(normalizacion.eliminarPalabras))
       IN  DropStopWords(kept, normalizacion.palabrasVacias)

normalizarTexto(texto) == normalizarTextoCon(Config.normalizacion, texto)

(***************************************************************************)
(* ConfigLoader scoring                                                    *)
(***************************************************************************)

WholeWord(text, p) == \E i \in DOMAIN text : text[i] = p
Partial(text, p) == \E i \in DOMAIN text : Includes(text[i], p)

KeywordPoints(text, p, cfg) ==
  IF text = <<p>> THEN cfg.coincidenciaExacta
  ELSE IF WholeWord(text, p) THEN cfg.coincidenciaPalabraCompleta
  ELSE IF Partial(text, p) THEN cfg.coincidenciaParcial
  ELSE 0

\* calcularPuntuacionModulo under given weights (puntuacion.modulo)
calcularPuntuacionModuloCon(cfg, texto, modulo) ==
  LET t == ToLower(texto)
      claves == getPalabrasClaveModulo(modulo)
      rel == getPalabrasRelacionadasModulo(modulo)
      pats == getPatronesModulo(modulo)
  IN  SumSeq([i \in DOMAIN claves |-> KeywordPoints(t, Lower(claves[i]), cfg)])
    + SumSeq([i \in DOMAIN rel |->
               IF WholeWord(t, Lower(rel[i])) THEN cfg.palabraRelacionada ELSE 0])
    + SumSeq([i \in DOMAIN pats |->
               IF PatternMatches(pats[i], t) THEN cfg.coincidenciaPalabraCompleta ELSE 0])

calcularPuntuacionModulo(texto, modulo) ==
  calcularPuntuacionModuloCon(getPuntuacionModulo, texto, modulo)

calcularPuntuacionAccion(texto, accion) ==
  LET cfg == getPuntuacionAccion
      t == ToLower(texto)
      claves == getPalabrasClaveAccion(accion)
      sins == getSinonimosAccion(accion)
      pats == getPatronesAccion(accion) \o getExpresionesTipicasAccion(accion)
  IN  SumSeq([i \in DOMAIN claves |-> KeywordPoints(t, Lower(claves[i]), cfg)])
    + SumSeq([i \in DOMAIN sins |->
               IF WholeWord(t, Lower(sins[i])) THEN cfg.coincidenciaPalabraCompleta ELSE 0])
    + SumSeq([i \in DOMAIN pats |->
               IF PatternMatches(pats[i], t) THEN cfg.expresionTipica ELSE 0])

\* Index of the last element with the highest score, as a sort that reverses
\* equal elements would put it at position 0.  C26 does not survive it.
BestIndexLast(scores) ==
  CHOOSE i \in DOMAIN scores :
    /\ \A j \in DOMAIN scores : scores[j] <= scores[i]
    /\ \A j \in (i + 1)..Len(scores) : scores[j] < scores[i]

\* Index of the first element with the highest score: Array.prototype.sort is
\* stable, so sorting by descending score puts it at position 0.
BestIndex(scores) ==
  CHOOSE i \in DOMAIN scores :
    /\ \A j \in DOMAIN scores : scores[j] <= scores[i]
    /\ \A j \in 1..(i - 1) : scores[j] < scores[i]

detectarMejorAccion(texto) ==
  WithValue([i \in DOMAIN AccionesConfiguradas |->
               calcularPuntuacionAccion(texto, AccionesConfiguradas[i])], LAMBDA scores :
    IF AccionesConfiguradas = <<>>
    THEN [accion |-> getAccionPorDefecto, puntuacion |-> 0]
    ELSE WithValue(BestIndex(scores), LAMBDA mejor :
           [accion |-> AccionesConfiguradas[mejor], puntuacion |-> scores[mejor]]))

\* ConfigLoader.extraerParametro: the first extraction template of the kind that
\* matches wins.  A template is the run of literal words in front of its
\* one-word capture group; NoValue stands for null.
NoValue == <<>>

TemplateCapture(texto, template) ==
  LET hits == { i \in 1..Len(texto) :
                  /\ i + Len(template) <= Len(texto)
                  /\ \A j \in 1..Len(template) : Lower(texto[i + j - 1]) = template[j] }
  IN  IF hits = {} THEN NoValue
      ELSE LET i == CHOOSE h \in hits : \A g \in hits : h <= g
           IN  << texto[i + Len(template)] >>

getPatronesExtraccion(tipo) ==
  IF tipo \in Config.patrones.extraerParametros THEN << <<tipo>> >> ELSE <<>>

RECURSIVE FirstCapture(_, _)
FirstCapture(texto, templates) ==
  IF templates = <<>> THEN NoValue
  ELSE IF TemplateCapture(texto, Head(templates)) # NoValue
       THEN TemplateCapture(texto, Head(templates))
       ELSE FirstCapture(texto, Tail(templates))

extraerParametro(texto, tipo) == FirstCapture(texto, getPatronesExtraccion(tipo))

(***************************************************************************)
(* ERPConfigService: the endpoint catalog of the company                   *)
(***************************************************************************)

\* A payload is the ordered list of its entries (Object.entries order); a value
\* is a text, <<>> being the empty string.
EpCrearCliente ==
  [ intencion |-> <<"crear", "cliente">>,
    descripcion |-> <<"crear", "un", "cliente", "nuevo">>,
    endpoint |-> "/api/ventas/clientes", partes |-> <<"api", "ventas", "clientes">>,
    metodo |-> "POST",
    payload |-> << [k |-> "nombre", v |-> <<>>], [k |-> "monto", v |-> <<"?">>] >>,
    tipo_salida |-> "preview" ]

EpListarVentas ==
  [ intencion |-> <<"listar", "ventas">>,
    descripcion |-> <<"listar", "las", "ventas">>,
    endpoint |-> "/api/ventas", partes |-> <<"api", "ventas">>,
    metodo |-> "GET",
    payload |-> << >>,
    tipo_salida |-> "json" ]

EpListarPacientes ==
  [ intencion |-> <<"listar", "pacientes">>,
    descripcion |-> <<"listar", "pacientes", "con", "filtro">>,
    endpoint |-> "/api/clinico/pacientes", partes |-> <<"api", "clinico", "pacientes">>,
    metodo |-> "GET",
    payload |-> << [k |-> "filtro", v |-> <<>>] >>,
    tipo_salida |-> "json" ]

Catalog ==
  [ demo |->
      [ VENTAS  |-> [ CREATE |-> << EpCrearCliente >>, READ |-> << EpListarVentas >> ],
        CLINICO |-> [ CREATE |-> << >>, READ |-> << EpListarPacientes >> ] ] ]

Thrown(msg) == [ kind |-> "error", error |-> msg ]

\* ERPConfigService.getEndpoints: throws for an unknown company, module or verb.
getEndpoints(empresa, modulo, crud) ==
  IF empresa \notin DOMAIN Catalog THEN Thrown("NoConfig")
  ELSE IF modulo \notin DOMAIN Catalog[empresa] THEN Thrown("ModuloNoEncontrado")
  ELSE IF crud \notin DOMAIN Catalog[empresa][modulo] THEN Thrown("CrudNoEncontrado")
  ELSE [ kind |-> "ok", endpoints |-> Catalog[empresa][modulo][crud] ]

(***************************************************************************)
(* IALocalService                                                          *)
(***************************************************************************)

\* interpretModuleCRUD that falls back to the first module the caller allows
\* instead of the configured default.  C9 does not survive it.
interpretModuleCRUDFirstAllowed(message, modulos) ==
  WithValue(normalizarTexto(message), LAMBDA msgNormalizada :
  WithValue(detectarMejorAccion(msgNormalizada), LAMBDA best :
    LET cfgA == getPuntuacionAccion
        cfgM == getPuntuacionModulo
        accionFinal == IF best.puntuacion >= cfgA.umbralMinimo
                       THEN best.accion ELSE getAccionPorDefecto
        puntuacionFinal == IF best.puntuacion >= cfgA.umbralMinimo
                           THEN best.puntuacion ELSE SCALE
    IN  WithValue([i \in DOMAIN modulos |->
                     WithValue(calcularPuntuacionModulo(msgNormalizada, modulos[i]),
                       LAMBDA puntuacionModulo :
                         IF puntuacionModulo < cfgM.umbralMinimo THEN 0
                         ELSE puntuacionModulo + puntuacionFinal)], LAMBDA scores :
          IF modulos # <<>> /\ scores[BestIndex(scores)] >= getUmbralMinimoConfianza
          THEN [ module |-> modulos[BestIndex(scores)], action |-> accionFinal ]
          ELSE [ module |-> IF modulos # <<>> THEN modulos[1] ELSE getModuloPorDefecto,
                 action |-> getAccionPorDefecto ])))

\* interpretModuleCRUD: action first, then one candidate per allowed module.
interpretModuleCRUD(message, modulos) ==
  WithValue(normalizarTexto(message), LAMBDA msgNormalizada :
  WithValue(detectarMejorAccion(msgNormalizada), LAMBDA best :
    LET cfgA == getPuntuacionAccion
        cfgM == getPuntuacionModulo
        accionFinal == IF best.puntuacion >= cfgA.umbralMinimo
                       THEN best.accion ELSE getAccionPorDefecto
        puntuacionFinal == IF best.puntuacion >= cfgA.umbralMinimo
                           THEN best.puntuacion ELSE SCALE
    IN  WithValue([i \in DOMAIN modulos |->
                     WithValue(calcularPuntuacionModulo(msgNormalizada, modulos[i]),
                       LAMBDA puntuacionModulo :
                         IF puntuacionModulo < cfgM.umbralMinimo THEN 0
                         ELSE puntuacionModulo + puntuacionFinal)], LAMBDA scores :
          IF modulos # <<>> /\ scores[BestIndex(scores)] >= getUmbralMinimoConfianza
          THEN [ module |-> modulos[BestIndex(scores)], action |-> accionFinal ]
          ELSE [ module |-> getModuloPorDefecto, action |-> getAccionPorDefecto ])))

palabrasIrrelevantesERP ==
  << "gemini", "gpt", "chatgpt", "openai", "llm", "ia", "inteligencia", "artificial",
     "juegos", "jugar", "videojuego", "diversion", "entretenimiento",
     "abrir", "usar", "llamar", "invocar", "ejecutar", "correr", "probar", "testear",
     "endpoint", "api", "url", "enlace", "link", "direccion", "ruta" >>

contienePalabrasIrrelevantesParaERP(texto) ==
  \E i \in DOMAIN texto : \E j \in DOMAIN palabrasIrrelevantesERP :
     Includes(texto[i], palabrasIrrelevantesERP[j])

esPalabraVacia(palabra) == Lower(palabra) \in Range(getPalabrasVacias)

palabrasRelevantes(modulo, accion) ==
  ToLower(getPalabrasClaveModulo(modulo) \o getPalabrasRelacionadasModulo(modulo)
          \o getPalabrasClaveAccion(accion) \o getSinonimosAccion(accion))

Related(w, relevantes) ==
  \E i \in DOMAIN relevantes : Includes(relevantes[i], w) \/ Includes(w, relevantes[i])

LongWords(text) == FilterSeq(text, {w \in Range(text) : LongWord(w)})

calcularRelevanciaMensaje(texto, modulo, accion) ==
  LET t == ToLower(texto)
      rel == palabrasRelevantes(modulo, accion)
      largas == LongWords(t)
      palabrasMensaje == FilterSeq(largas, {w \in Range(largas) : ~esPalabraVacia(w)})
      encontradas == Cardinality({i \in DOMAIN palabrasMensaje : Related(palabrasMensaje[i], rel)})
      n == Len(palabrasMensaje)
  IN  IF n = 0 THEN 0
      ELSE IF contienePalabrasIrrelevantesParaERP(t) THEN 0
      ELSE IF encontradas * 10 < 6 * n THEN (((encontradas * SCALE) \div n) * 200) \div SCALE
      ELSE (encontradas * SCALE) \div n

\* utils.calculateSimilarity: Jaccard similarity of the sets of long words.
calculateSimilarity(text1, text2) ==
  LET words1 == {w \in Range(ToLower(text1)) : LongWord(w)}
      words2 == {w \in Range(ToLower(text2)) : LongWord(w)}
  IN  IF text1 = <<>> \/ text2 = <<>> THEN 0
      ELSE IF words1 = {} \/ words2 = {} THEN 0
      ELSE (Cardinality(words1 \cap words2) * SCALE) \div Cardinality(words1 \cup words2)

esPalabraTecnica(palabra) ==
  Lower(palabra) \in {"api", "v1", "v2", "v3", "rest", "json", "xml", "http", "https", "www"}

calcularCoincidenciaEndpointCorregida(texto, partes, modulo, accion) ==
  LET t == ToLower(texto)
      rel == palabrasRelevantes(modulo, accion)
      largas == LongWords(ToLower(partes))
      partesEndpoint == FilterSeq(largas, {w \in Range(largas) : ~esPalabraTecnica(w)})
      puntos == [i \in DOMAIN partesEndpoint |->
                   IF Partial(t, partesEndpoint[i]) /\ Related(partesEndpoint[i], rel) THEN SCALE
                   ELSE IF Partial(t, partesEndpoint[i]) THEN 100
                   ELSE 0]
  IN  IF partesEndpoint = <<>> THEN 0
      ELSE Min(SumSeq(puntos) \div Max(1, Len(partesEndpoint)), SCALE)

calcularKeywordScoreUsandoConfig(texto, descripcion, modulo, accion) ==
  LET rel == palabrasRelevantes(modulo, accion)
      palabrasDesc == LongWords(ToLower(descripcion))
      puntos == [i \in DOMAIN rel |->
                   IF WholeWord(palabrasDesc, rel[i]) THEN 2
                   ELSE IF Related(rel[i], palabrasDesc) THEN 1
                   ELSE 0]
  IN  IF descripcion = <<>> THEN 0
      ELSE IF rel = <<>> THEN 0
      ELSE Min((SumSeq(puntos) * SCALE) \div Max(1, Len(rel) * 2), SCALE)

pesoIntencion == 150
pesoDescripcion == 150
pesoKeywords == 150
pesoEndpoint == 150
pesoRelevancia == 400

\* Score of one candidate endpoint (the body of the map in interpretEndpoint).
scoreTotal(msgNormalizada, ep, module, action) ==
  LET intentText == normalizarTexto(ep.intencion)
      descText == normalizarTexto(ep.descripcion)
      intentMatch == calculateSimilarity(msgNormalizada, intentText)
      descMatch == calculateSimilarity(msgNormalizada, descText)
      keywordScore == calcularKeywordScoreUsandoConfig(msgNormalizada, descText, module, action)
      endpointMatch == calcularCoincidenciaEndpointCorregida(msgNormalizada, ep.partes, module, action)
      relevanciaScore == calcularRelevanciaMensaje(msgNormalizada, module, action)
      cfg == getPuntuacionAccion
      scoreIntencion == (intentMatch * pesoIntencion * cfg.coincidenciaExacta) \div (SCALE * SCALE)
      scoreDescripcion == (descMatch * pesoDescripcion * cfg.coincidenciaExacta) \div (SCALE * SCALE)
      scoreKeywords == (keywordScore * pesoKeywords * cfg.coincidenciaPalabraCompleta) \div (SCALE * SCALE)
      scoreEndpoint == (endpointMatch * pesoEndpoint * cfg.expresionTipica) \div (SCALE * SCALE)
      scoreRelevancia == (relevanciaScore * pesoRelevancia) \div SCALE
  IN  Min(scoreIntencion + scoreDescripcion + scoreKeywords + scoreEndpoint + scoreRelevancia,
          SCALE)

\* The payload of the chosen endpoint, copied, with every key that an
\* extraction template captures from the normalised message filled in.
extractPayload(msgNormalizada, template) ==
  [i \in DOMAIN template |->
     LET valorExtraido == extraerParametro(msgNormalizada, template[i].k)
     IN  IF valorExtraido # NoValue THEN [k |-> template[i].k, v |-> valorExtraido]
         ELSE template[i]]

\* interpretEndpoint from the list of candidates that getEndpoints returned
interpretEndpointEntre(message, endpoints, module, action) ==
  WithValue(normalizarTexto(message), LAMBDA msgNormalizada :
    IF endpoints = <<>> THEN Thrown("NoHayEndpoints")
    ELSE WithValue([i \in DOMAIN endpoints |->
                      scoreTotal(msgNormalizada, endpoints[i], module, action)],
           LAMBDA scores :
           WithValue(BestIndex(scores), LAMBDA mejor :
             IF scores[mejor] < getUmbralMinimoConfianza
             THEN Thrown("NoEndpointSuficiente")
             ELSE [ kind |-> "ok",
                    endpoint |-> endpoints[mejor].endpoint,
                    payload |-> extractPayload(msgNormalizada, endpoints[mejor].payload),
                    endpointConfig |-> endpoints[mejor],
                    confidence |-> scores[mejor] ])))

interpretEndpoint(message, erp, module, action) ==
  WithValue(getEndpoints(erp, module, action), LAMBDA got :
    IF got.kind = "error" THEN got
    ELSE interpretEndpointEntre(message, got.endpoints, module, action))

\* IALocalService.interpret
localInterpret(message, context) ==
  WithValue(interpretModuleCRUD(message, context.permisos.modulos), LAMBDA mc :
  WithValue(interpretEndpoint(message, context.erp, mc.module, mc.action), LAMBDA ep :
    IF ep.kind = "error" THEN ep
    ELSE [ kind |-> "result",
           module |-> mc.module,
           action |-> mc.action,
           endpoint |-> ep.endpoint,
           payload |-> ep.payload,
           method |-> ep.endpointConfig.metodo,
           confidence |-> ep.confidence ]))

\* ia-interpreter.local.interpretLocal: the module must be one the caller allows.
interpretLocal(message, context, modulosDisponibles) ==
  WithValue(localInterpret(message, context), LAMBDA result :
    IF result.kind = "error" THEN result
    ELSE IF result.module \notin Range(modulosDisponibles)
         THEN Thrown("ModuloNoPermitido")
         ELSE result)


(***************************************************************************)
(* Requests                                                                *)
(***************************************************************************)

CtxTodo ==
  [ erp |-> "demo",
    permisos |-> [ modulos |-> << "VENTAS", "CLINICO" >>, acciones |-> { "CREATE", "READ" } ] ]

CtxClinico ==
  [ erp |-> "demo",
    permisos |-> [ modulos |-> << "CLINICO" >>, acciones |-> { "READ" } ] ]

CtxVentasLectura ==
  [ erp |-> "demo",
    permisos |-> [ modulos |-> << "VENTAS" >>, acciones |-> { "READ" } ] ]

Contexts == { CtxTodo, CtxClinico, CtxVentasLectura }

Messages ==
  { << "crear", "cliente" >>,
    << "crear", "cliente", "nombre", "ACME", "monto", "500" >>,
    << "nombre", "ACME" >>,
    << "monto", "500" >>,
    << "listar", "pacientes" >>,
    << "listar" >>,
    << "buscar", "paciente", "ACME", "500" >> }

\* What the local engine answers to every request of the model.
LocalTable ==
  [ m \in Messages, c \in Contexts |-> interpretLocal(m, c, c.permisos.modulos) ]

(***************************************************************************)
(* IAInterpreterService: helpers of the session flow                       *)
(***************************************************************************)

\* null / undefined as a payload value
Null == << "<null>" >>
Placeholder == << "?" >>

\* Words that end / start with another word of the model (regular expressions
\* are not anchored at word boundaries).
SuffixPairs == { <<"sobrenombre", "nombre">> }
PrefixPairs == { <<"montos", "monto">> }
EndsWith(w, p) == Lower(w) = p \/ <<Lower(w), p>> \in SuffixPairs
StartsWith(w, p) == Lower(w) = p \/ <<Lower(w), p>> \in PrefixPairs

\* paramName.toLowerCase().includes(fragment)
NameIncludes(paramName, fragment) ==
  \/ Lower(paramName) = fragment
  \/ <<Lower(paramName), fragment>> \in
       { <<"cliente_id", "id">>, <<"cliente_id", "cliente">>, <<"fecha_inicio", "fecha">>,
         <<"monto_total", "monto">>, <<"monto_total", "total">> }

guessParameterType(paramName) ==
  IF NameIncludes(paramName, "id") THEN "ID"
  ELSE IF NameIncludes(paramName, "fecha") \/ NameIncludes(paramName, "date") THEN "FECHA"
  ELSE IF NameIncludes(paramName, "cliente") \/ NameIncludes(paramName, "customer") THEN "CLIENTE"
  ELSE IF NameIncludes(paramName, "cantidad") \/ NameIncludes(paramName, "quantity") THEN "NUMERO"
  ELSE IF NameIncludes(paramName, "monto") \/ NameIncludes(paramName, "amount")
          \/ NameIncludes(paramName, "total") THEN "MONTO"
  ELSE "TEXTO"

getParameterDescription(paramName) ==
  IF NameIncludes(paramName, "id") THEN "el identificador unico"
  ELSE IF NameIncludes(paramName, "fecha") \/ NameIncludes(paramName, "date") THEN "la fecha (YYYY-MM-DD)"
  ELSE IF NameIncludes(paramName, "cliente") THEN "el nombre o codigo del cliente"
  ELSE IF NameIncludes(paramName, "cantidad") THEN "la cantidad"
  ELSE IF NameIncludes(paramName, "monto") THEN "el monto"
  ELSE paramName

\* value === undefined || value === null || value === "" || value === "?"
IsEmptyValue(v) == v = Null \/ v = <<>> \/ v = Placeholder

RECURSIVE MissingOf(_)
MissingOf(payload) ==
  IF payload = <<>> THEN <<>>
  ELSE IF IsEmptyValue(Head(payload).v)
       THEN << [ param |-> Head(payload).k,
                 type |-> guessParameterType(Head(payload).k),
                 description |-> getParameterDescription(Head(payload).k) ] >>
            \o MissingOf(Tail(payload))
       ELSE MissingOf(Tail(payload))

checkMissingParameters(result) == MissingOf(result.payload)

generateParameterRequestMessage(missingParams, result) ==
  [ action |-> result.action, module |-> result.module,
    list |-> Len(missingParams) # 1,
    need |-> [i \in DOMAIN missingParams |-> missingParams[i].description] ]

\* Leftmost position at which a pattern matches, 0 when it does not.
Leftmost(hits) == IF hits = {} THEN 0 ELSE CHOOSE h \in hits : \A g \in hits : h <= g

RestFrom(text, i) == SubSeq(text, i, Len(text))

\* The five patterns of findParameterValue, in order.  Messages carry no
\* punctuation, so a greedy capture group runs to the end of the message.
findParameterValue(text, paramName, type) ==
  LET p == Lower(paramName)
      n == Len(text)
      \* param (es|de|:|es de) value...
      h1 == Leftmost({ i \in 1..n : /\ i + 2 <= n
                                     /\ EndsWith(text[i], p)
                                     /\ Lower(text[i + 1]) \in {"es", "de", ":"} })
      \* con param value...
      h2 == Leftmost({ i \in 1..n : /\ i + 2 <= n
                                     /\ EndsWith(text[i], "con")
                                     /\ Lower(text[i + 1]) = p })
      \* para param value...
      h3 == Leftmost({ i \in 1..n : /\ i + 2 <= n
                                     /\ EndsWith(text[i], "para")
                                     /\ Lower(text[i + 1]) = p })
      \* param value
      h4 == Leftmost({ i \in 1..n : i + 1 <= n /\ EndsWith(text[i], p) })
      \* value param
      h5 == Leftmost({ i \in 1..n : i + 1 <= n /\ StartsWith(text[i + 1], p) })
  IN  IF h1 # 0 THEN RestFrom(text, h1 + 2)
      ELSE IF h2 # 0 THEN RestFrom(text, h2 + 2)
      ELSE IF h3 # 0 THEN RestFrom(text, h3 + 2)
      ELSE IF h4 # 0 THEN << text[h4 + 1] >>
      ELSE IF h5 # 0 THEN << text[h5] >>
      ELSE NoValue

\* The parameter names of the catalogue
ParamNames ==
  UNION { { ep.payload[i].k : i \in DOMAIN ep.payload } :
          ep \in { EpCrearCliente, EpListarVentas, EpListarPacientes } }

\* What findParameterValue answers for every message and parameter of the model.
FindTable ==
  [ m \in Messages, k \in ParamNames |-> findParameterValue(m, k, guessParameterType(k)) ]

\* extracted[param] for every missing parameter whose value was found
\* (param.type is guessParameterType(param.param), see checkMissingParameters)
extractParametersFromMessage(message, missingParams) ==
  LET found == { i \in DOMAIN missingParams :
                   FindTable[message, missingParams[i].param] # NoValue }
  IN  [ k \in { missingParams[i].param : i \in found } |-> FindTable[message, k] ]

\* updatePayload that keeps only the values of the last message: the payload
\* is replaced instead of merged.  C1 does not survive it.
updatePayloadReplacing(result, newParams) ==
  [ result EXCEPT !.payload =
      [ i \in DOMAIN result.payload |->
          IF result.payload[i].k \in DOMAIN newParams /\ newParams[result.payload[i].k] # <<>>
          THEN [ k |-> result.payload[i].k, v |-> newParams[result.payload[i].k] ]
          ELSE [ k |-> result.payload[i].k, v |-> <<>> ] ] ]

updatePayload(result, newParams) ==
  [ result EXCEPT !.payload =
      [ i \in DOMAIN result.payload |->
          IF result.payload[i].k \in DOMAIN newParams /\ newParams[result.payload[i].k] # <<>>
          THEN [ k |-> result.payload[i].k, v |-> newParams[result.payload[i].k] ]
          ELSE result.payload[i] ] ]

(***************************************************************************)
(* IAOutputService.generate                                                *)
(***************************************************************************)

\* generate without the check of the action.  C6 does not survive it.
generateWithoutActionCheck(output, context) ==
  IF output.kind = "needs"
  THEN [ success |-> FALSE, error |-> "", needsParameters |-> output.needsParameters,
         sessionId |-> output.sessionId, curl |-> "" ]
  ELSE IF output.module \notin Range(context.permisos.modulos)
  THEN [ success |-> FALSE, error |-> "PERMISO_MODULO_DENEGADO", needsParameters |-> <<>>,
         sessionId |-> 0, curl |-> "" ]
  ELSE [ success |-> TRUE, error |-> "", needsParameters |-> <<>>,
         sessionId |-> 0, curl |-> output.endpoint ]

generate(output, context) ==
  IF output.kind = "needs"
  THEN [ success |-> FALSE, error |-> "", needsParameters |-> output.needsParameters,
         sessionId |-> output.sessionId, curl |-> "" ]
  ELSE IF output.module \notin Range(context.permisos.modulos)
  THEN [ success |-> FALSE, error |-> "PERMISO_MODULO_DENEGADO", needsParameters |-> <<>>,
         sessionId |-> 0, curl |-> "" ]
  ELSE IF output.action \notin context.permisos.acciones
  THEN [ success |-> FALSE, error |-> "PERMISO_ACCION_DENEGADO", needsParameters |-> <<>>,
         sessionId |-> 0, curl |-> "" ]
  ELSE [ success |-> TRUE, error |-> "", needsParameters |-> <<>>,
         sessionId |-> 0, curl |-> output.endpoint ]

\* The route: interpret, then generate under the context of this request; an
\* exception of interpret becomes the 500 answer.
respond(output, context) ==
  IF output.kind = "error"
  THEN [ success |-> FALSE, error |-> "ERROR_INTERNO", needsParameters |-> <<>>,
         sessionId |-> 0, curl |-> "" ]
  ELSE generate(output, context)

(***************************************************************************)
(* State                                                                   *)
(***************************************************************************)

\* Bounds of the model
MaxSessions == 1
MaxTime == 17
MaxWaiting == 1

\* 15 * 60 * 1000 ms and 5 * 60 * 1000 ms, in minutes
SESSION_TIMEOUT == 15
SWEEP_INTERVAL == 5

\* confidence gate 0.15
UMBRAL_CONFIANZA == 150

\* sessionId absent from the request
NoSession == 0

\* generateSessionId: `sess_${Date.now()}_${random}`.  The text after the
\* prefix is unique to the call; it is the number of ids generated so far.
generateSessionId(counter) == << "sess_", counter + 1 >>

\* receiveMessage on the sessionId of the body: absent, or a string that
\* starts with 'sess_'
Undefined == << >>
sessionIdAccepted(sessionId) == sessionId = Undefined \/ sessionId[1] = "sess_"

VARIABLES
  pendingSessions,  \* Map<string, PendingRequest>, keyed by the number of the id
  idCounter,        \* number of session ids generated so far
  now,              \* Date.now(), in minutes
  nextSweep,        \* when the setInterval timer fires next
  motor,            \* IAMotor
  waiting,          \* requests whose handler awaits the answer of the remote interpreter
  handled           \* the request answered last, with what was handed back

vars == << pendingSessions, idCounter, now, nextSweep, motor, waiting, handled >>

\* Map.set / Map.delete
MapSet(map, key, value) ==
  [ k \in DOMAIN map \cup {key} |-> IF k = key THEN value ELSE map[k] ]
MapDelete(map, key) == [ k \in DOMAIN map \ {key} |-> map[k] ]

\* payload[key]
ValueOf(payload, key) ==
  LET at == { i \in DOMAIN payload : payload[i].k = key }
  IN  IF at = {} THEN Null ELSE payload[CHOOSE i \in at : TRUE].v

\* processFollowUp that re-stores the list of missing parameters it found
\* instead of the recomputed one.  C2 does not survive it.
processFollowUpStaleMissing(message, pendingRequest, sessionId, store, t) ==
  WithValue(extractParametersFromMessage(message, pendingRequest.missingParams),
    LAMBDA extractedParams :
  WithValue(updatePayload(pendingRequest.originalResult, extractedParams),
    LAMBDA updatedResult :
  WithValue(checkMissingParameters(updatedResult), LAMBDA remainingMissingParams :
    IF Len(remainingMissingParams) > 0
    THEN [ store |-> MapSet(store, sessionId,
                       [ originalResult |-> updatedResult,
                         missingParams |-> pendingRequest.missingParams,
                         context |-> pendingRequest.context,
                         timestamp |-> t ]),
           out |-> [ kind |-> "needs", needsParameters |-> remainingMissingParams,
                     message |-> generateParameterRequestMessage(remainingMissingParams, updatedResult),
                     sessionId |-> sessionId ] ]
    ELSE [ store |-> MapDelete(store, sessionId), out |-> updatedResult ])))

\* processFollowUp that leaves the completed session in the store.  C8 does
\* not survive it.
processFollowUpKeepingSession(message, pendingRequest, sessionId, store, t) ==
  WithValue(extractParametersFromMessage(message, pendingRequest.missingParams),
    LAMBDA extractedParams :
  WithValue(updatePayload(pendingRequest.originalResult, extractedParams),
    LAMBDA updatedResult :
  WithValue(checkMissingParameters(updatedResult), LAMBDA remainingMissingParams :
    IF Len(remainingMissingParams) > 0
    THEN [ store |-> MapSet(store, sessionId,
                       [ originalResult |-> updatedResult,
                         missingParams |-> remainingMissingParams,
                         context |-> pendingRequest.context,
                         timestamp |-> t ]),
           out |-> [ kind |-> "needs", needsParameters |-> remainingMissingParams,
                     message |-> generateParameterRequestMessage(remainingMissingParams, updatedResult),
                     sessionId |-> sessionId ] ]
    ELSE [ store |-> MapSet(store, sessionId,
                       [ originalResult |-> updatedResult,
                         missingParams |-> remainingMissingParams,
                         context |-> pendingRequest.context,
                         timestamp |-> t ]),
           out |-> updatedResult ])))

\* processFollowUp: the store and the answer it leaves
processFollowUp(message, pendingRequest, sessionId, store, t) ==
  WithValue(extractParametersFromMessage(message, pendingRequest.missingParams),
    LAMBDA extractedParams :
  WithValue(updatePayload(pendingRequest.originalResult, extractedParams),
    LAMBDA updatedResult :
  WithValue(checkMissingParameters(updatedResult), LAMBDA remainingMissingParams :
    IF Len(remainingMissingParams) > 0
    THEN [ store |-> MapSet(store, sessionId,
                       [ originalResult |-> updatedResult,
                         missingParams |-> remainingMissingParams,
                         context |-> pendingRequest.context,
                         timestamp |-> t ]),
           out |-> [ kind |-> "needs", needsParameters |-> remainingMissingParams,
                     message |-> generateParameterRequestMessage(remainingMissingParams, updatedResult),
                     sessionId |-> sessionId ] ]
    ELSE [ store |-> MapDelete(store, sessionId), out |-> updatedResult ])))

\* The rest of interpret with the session stored before the test of the
\* missing parameters: a request that is resolved leaves an entry behind.  C22
\* does not survive it.
afterInterpreterAlwaysStoring(result, activeSessionId, context, store, counter, t) ==
  IF result.kind = "error" THEN [ store |-> store, counter |-> counter, out |-> result ]
  ELSE IF result.confidence >= UMBRAL_CONFIANZA
  THEN WithValue(checkMissingParameters(result), LAMBDA missingParams :
         LET newSessionId == IF activeSessionId # NoSession THEN activeSessionId
                             ELSE generateSessionId(counter)[2]
             stored == MapSet(store, newSessionId,
                         [ originalResult |-> result, missingParams |-> missingParams,
                           context |-> context, timestamp |-> t ])
         IN  IF Len(missingParams) > 0
             THEN [ store |-> stored,
                    counter |-> IF activeSessionId # NoSession THEN counter ELSE counter + 1,
                    out |-> [ kind |-> "needs", needsParameters |-> missingParams,
                              message |-> generateParameterRequestMessage(missingParams, result),
                              sessionId |-> newSessionId ] ]
             ELSE [ store |-> stored,
                    counter |-> IF activeSessionId # NoSession THEN counter ELSE counter + 1,
                    out |-> result ])
  ELSE [ store |-> store, counter |-> counter, out |-> Thrown("ConfianzaInsuficiente") ]

\* interpret, once the interpreter has answered: gate, missing parameters, session
afterInterpreter(result, activeSessionId, context, store, counter, t) ==
  IF result.kind = "error" THEN [ store |-> store, counter |-> counter, out |-> result ]
  ELSE IF result.confidence >= UMBRAL_CONFIANZA
  THEN WithValue(checkMissingParameters(result), LAMBDA missingParams :
         LET newSessionId == IF activeSessionId # NoSession THEN activeSessionId
                             ELSE generateSessionId(counter)[2]
         IN  IF Len(missingParams) > 0
             THEN [ store |-> MapSet(store, newSessionId,
                                [ originalResult |-> result, missingParams |-> missingParams,
                                  context |-> context, timestamp |-> t ]),
                    counter |-> IF activeSessionId # NoSession THEN counter ELSE counter + 1,
                    out |-> [ kind |-> "needs", needsParameters |-> missingParams,
                              message |-> generateParameterRequestMessage(missingParams, result),
                              sessionId |-> newSessionId ] ]
             ELSE [ store |-> store, counter |-> counter, out |-> result ])
  ELSE [ store |-> store, counter |-> counter, out |-> Thrown("ConfianzaInsuficiente") ]

\* interpret that answers a fresh request with the endpoint of a session the
\* store already holds.  C15 does not survive it.
interpretReusingEndpoint(message, context, sessionId, store, counter, t) ==
  IF sessionId # NoSession /\ sessionId \in DOMAIN store
  THEN WithValue(processFollowUp(message, store[sessionId], sessionId, store, t), LAMBDA fu :
         [ store |-> fu.store, counter |-> counter, out |-> fu.out, path |-> "followup" ])
  ELSE WithValue(afterInterpreter(
                   IF store # << >> /\ LocalTable[message, context].kind = "result"
                   THEN [ LocalTable[message, context] EXCEPT !.endpoint =
                            store[CHOOSE k \in DOMAIN store : TRUE].originalResult.endpoint ]
                   ELSE LocalTable[message, context],
                   sessionId, context, store, counter, t), LAMBDA fr :
         [ store |-> fr.store, counter |-> fr.counter, out |-> fr.out, path |-> "fresh" ])

\* interpret without the test that the store holds the session: a request
\* bearing the id of a session that is gone is continued as a follow-up and
\* fails on the entry it cannot read.  C17 does not survive it.
interpretWithoutHasCheck(message, context, sessionId, store, counter, t) ==
  IF sessionId # NoSession
  THEN IF sessionId \in DOMAIN store
       THEN WithValue(processFollowUp(message, store[sessionId], sessionId, store, t),
              LAMBDA fu : [ store |-> fu.store, counter |-> counter, out |-> fu.out,
                            path |-> "followup" ])
       ELSE [ store |-> store, counter |-> counter, out |-> Thrown("TypeError"),
              path |-> "followup" ]
  ELSE WithValue(afterInterpreter(LocalTable[message, context], sessionId, context,
                                  store, counter, t), LAMBDA fr :
         [ store |-> fr.store, counter |-> fr.counter, out |-> fr.out, path |-> "fresh" ])

\* IAInterpreterService.interpret with the local motor.  Neither branch waits
\* for I/O (processFollowUp and the local engine contain no await that
\* suspends on anything but an already settled promise), so the handler runs
\* to completion before any other handler or timer callback: the store it
\* leaves and its answer are a function of the store it finds.
interpret(message, context, sessionId, store, counter, t) ==
  IF sessionId # NoSession /\ sessionId \in DOMAIN store
  THEN WithValue(processFollowUp(message, store[sessionId], sessionId, store, t), LAMBDA fu :
         [ store |-> fu.store, counter |-> counter, out |-> fu.out, path |-> "followup" ])
  ELSE WithValue(afterInterpreter(LocalTable[message, context], sessionId, context,
                                  store, counter, t), LAMBDA fr :
         [ store |-> fr.store, counter |-> fr.counter, out |-> fr.out, path |-> "fresh" ])

\* cleanupExpiredSessions that deletes a session as soon as its age reaches
\* the timeout.  C19 does not survive it.
cleanupExpiredSessionsAtTimeout(store, t) ==
  [ k \in { id \in DOMAIN store : ~(t - store[id].timestamp >= SESSION_TIMEOUT) } |-> store[k] ]

\* cleanupExpiredSessions
cleanupExpiredSessions(store, t) ==
  [ k \in { id \in DOMAIN store : ~(t - store[id].timestamp > SESSION_TIMEOUT) } |-> store[k] ]

\* Session ids a client can send: none, or one the service has issued.
SessionIdsKnown == { NoSession } \cup 1..idCounter

\* What the handler of the route leaves in `handled`: the request, what
\* interpret returned or threw and the path it took.
Exchange(message, context, sessionId, out, path) ==
  [ message |-> message, context |-> context, sessionId |-> sessionId,
    out |-> out, path |-> path ]

Init ==
  /\ pendingSessions = << >>
  /\ idCounter = 0
  /\ now = 0
  /\ nextSweep = SWEEP_INTERVAL
  /\ motor = "LOCAL"
  /\ waiting = {}
  /\ handled = [ path |-> "none" ]

\* POST /ia/interpret, served by the local motor
Request(message, context, sessionId) ==
  /\ motor = "LOCAL"
  /\ \E st \in { interpret(message, context, sessionId, pendingSessions, idCounter, now) } :
       /\ st.counter <= MaxSessions
       /\ pendingSessions' = st.store
       /\ idCounter' = st.counter
       /\ handled' = Exchange(message, context, sessionId, st.out, st.path)
  /\ UNCHANGED << now, nextSweep, motor, waiting >>

\* The interval timer fires
Sweep ==
  /\ now = nextSweep
  /\ pendingSessions' = cleanupExpiredSessions(pendingSessions, now)
  /\ nextSweep' = nextSweep + SWEEP_INTERVAL
  /\ UNCHANGED << idCounter, now, motor, waiting, handled >>

\* A minute passes; the timer fires on time.
Tick ==
  /\ now < MaxTime
  /\ now < nextSweep
  /\ now' = now + 1
  /\ UNCHANGED << pendingSessions, idCounter, nextSweep, motor, waiting, handled >>

Next ==
  \/ \E m \in Messages, c \in Contexts, s \in SessionIdsKnown : Request(m, c, s)
  \/ Sweep
  \/ Tick

Spec == Init /\ [][Next]_vars

(***************************************************************************)
(* IAInterpreterService, local engine first and Gemini as fallback         *)
(***************************************************************************)

\* Bound on the clock of the fallback service
MaxTimeFallback == 5

\* The remote model does not answer (network error, quota, unparsable text)
GeminiDown == [ module |-> "", crud |-> "" ]

\* What the remote model can answer to the module/CRUD prompt
GeminiAnswers ==
  { GeminiDown } \cup [ module : { "VENTAS", "CLINICO" }, crud : { "CREATE", "READ" } ]

\* GeminiInterpreter.interpretWithGemini, given the answer of the remote model.
\* Every pair of the catalogue has one endpoint, so the endpoint prompt is
\* never sent and the payload is the template of the endpoint.  The result
\* carries no confidence.
interpretWithGemini(answer, modulosDisponibles, erp) ==
  IF answer = GeminiDown THEN Thrown("GeminiSinRespuesta")
  ELSE IF answer.module \notin Range(modulosDisponibles)
  THEN Thrown("ErrorParseandoRespuesta")
  ELSE WithValue(getEndpoints(erp, answer.module, answer.crud), LAMBDA got :
         IF got.kind = "error" THEN got
         ELSE IF got.endpoints = <<>> THEN Thrown("NoHayEndpoints")
         ELSE [ kind |-> "result",
                module |-> answer.module,
                action |-> answer.crud,
                endpoint |-> got.endpoints[1].endpoint,
                payload |-> got.endpoints[1].payload,
                method |-> got.endpoints[1].metodo ])

\* interpret that hands every fresh request to Gemini when the motor is
\* GEMINI, whatever the local engine answered.  C23 does not survive it.
interpretGeminiWhateverLocal(message, context, sessionId, store, counter, t, mot) ==
  IF sessionId # NoSession /\ sessionId \in DOMAIN store
  THEN WithValue(processFollowUp(message, store[sessionId], sessionId, store, t), LAMBDA fu :
         [ store |-> fu.store, counter |-> counter, path |-> "followup", settled |-> TRUE,
           out |-> IF "sessionId" \in DOMAIN fu.out THEN fu.out
                   ELSE fu.out @@ [ sessionId |-> sessionId ] ])
  ELSE WithValue(LocalTable[message, context], LAMBDA localResult :
         IF mot = "GEMINI"
         THEN [ store |-> store, counter |-> counter, path |-> "fresh",
                settled |-> FALSE, out |-> localResult ]
         ELSE IF localResult.kind = "result" /\ localResult.confidence >= UMBRAL_CONFIANZA
         THEN WithValue(afterInterpreter(localResult, sessionId, context, store, counter, t),
                LAMBDA fr : [ store |-> fr.store, counter |-> fr.counter, path |-> "fresh",
                              settled |-> TRUE, out |-> fr.out ])
         ELSE [ store |-> store, counter |-> counter, path |-> "fresh", settled |-> TRUE,
                out |-> IF localResult.kind = "result" THEN localResult
                        ELSE Thrown("MotorLocalFallo") ])

\* interpret up to the call of Gemini: a pending session is continued, else
\* the local engine is asked; settled tells whether the handler has answered.
interpretLocalFirst(message, context, sessionId, store, counter, t, mot) ==
  IF sessionId # NoSession /\ sessionId \in DOMAIN store
  THEN WithValue(processFollowUp(message, store[sessionId], sessionId, store, t), LAMBDA fu :
         [ store |-> fu.store, counter |-> counter, path |-> "followup", settled |-> TRUE,
           out |-> IF "sessionId" \in DOMAIN fu.out THEN fu.out
                   ELSE fu.out @@ [ sessionId |-> sessionId ] ])
  ELSE WithValue(LocalTable[message, context], LAMBDA localResult :
         IF localResult.kind = "result" /\ localResult.confidence >= UMBRAL_CONFIANZA
         THEN WithValue(afterInterpreter(localResult, sessionId, context, store, counter, t),
                LAMBDA fr : [ store |-> fr.store, counter |-> fr.counter, path |-> "fresh",
                              settled |-> TRUE, out |-> fr.out ])
         ELSE IF mot = "GEMINI"
         THEN [ store |-> store, counter |-> counter, path |-> "fresh",
                settled |-> FALSE, out |-> localResult ]
         ELSE [ store |-> store, counter |-> counter, path |-> "fresh", settled |-> TRUE,
                out |-> IF localResult.kind = "result" THEN localResult
                        ELSE Thrown("MotorLocalFallo") ])

\* interpret from the answer of Gemini on
afterGemini(geminiResult, localResult, activeSessionId, context, store, counter, t) ==
  IF geminiResult.kind = "error"
  THEN [ store |-> store, counter |-> counter, path |-> "fresh",
         out |-> IF localResult.kind = "result" THEN localResult
                 ELSE Thrown("NoSePudoInterpretar") ]
  ELSE WithValue(checkMissingParameters(geminiResult), LAMBDA missingParams :
         LET newSessionId == IF activeSessionId # NoSession THEN activeSessionId
                             ELSE generateSessionId(counter)[2]
         IN  IF Len(missingParams) > 0
             THEN [ store |-> MapSet(store, newSessionId,
                                [ originalResult |-> geminiResult,
                                  missingParams |-> missingParams,
                                  context |-> context, timestamp |-> t ]),
                    counter |-> IF activeSessionId # NoSession THEN counter ELSE counter + 1,
                    path |-> "gemini",
                    out |-> [ kind |-> "needs", needsParameters |-> missingParams,
                              message |-> generateParameterRequestMessage(missingParams,
                                                                          geminiResult),
                              sessionId |-> newSessionId ] ]
             ELSE [ store |-> store, counter |-> counter, path |-> "gemini",
                    out |-> geminiResult ])

\* The requests sent to the fallback service
FbMessages ==
  { << "crear", "cliente" >>,
    << "nombre", "ACME" >>,
    << "monto", "500" >>,
    << "listar" >>,
    << "buscar", "paciente", "ACME", "500" >> }

FbContexts == { CtxTodo, CtxClinico }

InitFallback ==
  /\ pendingSessions = << >>
  /\ idCounter = 0
  /\ now = 0
  /\ nextSweep = SWEEP_INTERVAL
  /\ motor = "GEMINI"
  /\ waiting = {}
  /\ handled = [ path |-> "none" ]

\* POST /ia/interpret: the handler runs until it answers or awaits Gemini
FbRequest(message, context, sessionId) ==
  /\ \E st \in { interpretLocalFirst(message, context, sessionId, pendingSessions,
                                     idCounter, now, motor) } :
       /\ st.counter <= MaxSessions
       /\ IF st.settled
          THEN /\ pendingSessions' = st.store
               /\ idCounter' = st.counter
               /\ handled' = Exchange(message, context, sessionId, st.out, st.path)
               /\ UNCHANGED waiting
          ELSE /\ Cardinality(waiting) < MaxWaiting
               /\ waiting' = waiting \cup { [ message |-> message, context |-> context,
                                              sessionId |-> sessionId,
                                              localResult |-> st.out ] }
               /\ UNCHANGED << pendingSessions, idCounter, handled >>
  /\ UNCHANGED << now, nextSweep, motor >>

\* The call of Gemini settles and the handler that awaited it runs to its end
GeminiSettles(w, answer) ==
  /\ w \in waiting
  /\ \E st \in { afterGemini(interpretWithGemini(answer, w.context.permisos.modulos,
                                                 w.context.erp),
                             w.localResult, w.sessionId, w.context,
                             pendingSessions, idCounter, now) } :
       /\ st.counter <= MaxSessions
       /\ pendingSessions' = st.store
       /\ idCounter' = st.counter
       /\ handled' = Exchange(w.message, w.context, w.sessionId, st.out, st.path)
  /\ waiting' = waiting \ { w }
  /\ UNCHANGED << now, nextSweep, motor >>

\* setMotor
SetMotor(m) ==
  /\ m # motor
  /\ motor' = m
  /\ UNCHANGED << pendingSessions, idCounter, now, nextSweep, waiting, handled >>

\* Time passes until the timer is due
FbTick ==
  /\ nextSweep <= MaxTimeFallback
  /\ now < nextSweep
  /\ now' = nextSweep
  /\ UNCHANGED << pendingSessions, idCounter, nextSweep, motor, waiting, handled >>

NextFallback ==
  \/ \E m \in FbMessages, c \in FbContexts, s \in SessionIdsKnown : FbRequest(m, c, s)
  \/ \E w \in waiting, a \in GeminiAnswers : GeminiSettles(w, a)
  \/ \E m \in { "LOCAL", "GEMINI" } : SetMotor(m)
  \/ Sweep
  \/ FbTick

SpecFallback == InitFallback /\ [][NextFallback]_vars

(***************************************************************************)
(* Construction of the local engine                                        *)
(***************************************************************************)

\* ConfigLoader.detectarMejorModulo
detectarMejorModulo(texto, modulosDisponibles) ==
  WithValue([i \in DOMAIN modulosDisponibles |->
               calcularPuntuacionModulo(texto, modulosDisponibles[i])], LAMBDA scores :
    IF modulosDisponibles = <<>>
    THEN [ kind |-> "ok", modulo |-> getModuloPorDefecto, puntuacion |-> 0 ]
    ELSE WithValue(BestIndex(scores), LAMBDA mejor :
           [ kind |-> "ok", modulo |-> modulosDisponibles[mejor],
             puntuacion |-> scores[mejor] ]))

\* IALocalService.interpretModuleCRUD as the service of the second source file
\* has it: candidates[0] is read without a test, and a best score below the
\* threshold is an exception.
interpretModuleCRUDEstricto(message, modulos) ==
  WithValue(normalizarTexto(message), LAMBDA msgNormalizada :
  WithValue(detectarMejorAccion(msgNormalizada), LAMBDA best :
  WithValue([i \in DOMAIN modulos |->
               calcularPuntuacionModulo(msgNormalizada, modulos[i]) + best.puntuacion],
    LAMBDA scores :
      IF modulos = <<>> THEN Thrown("TypeError")
      ELSE IF scores[BestIndex(scores)] >= getUmbralMinimoConfianza
      THEN [ kind |-> "ok", module |-> modulos[BestIndex(scores)], action |-> best.accion ]
      ELSE Thrown("NoSePudoDetectar"))))

\* config.outer?.inner is present (an object, even an empty one, is truthy)
HasSection(config, outer, inner) ==
  outer \in DOMAIN config /\ inner \in DOMAIN config[outer]

\* ConfigLoader.validateConfig: the message of the first check that fails
validateConfig(config) ==
  IF ~("version" \in DOMAIN config /\ config.version # "") THEN "SinVersion"
  ELSE IF ~( /\ HasSection(config, "settings", "umbralMinimoConfianza")
             /\ config.settings.umbralMinimoConfianza # 0 )
       THEN "SinUmbralMinimoConfianza"
  ELSE IF ~HasSection(config, "vocabulario", "modulos") THEN "SinVocabularioModulos"
  ELSE IF ~HasSection(config, "vocabulario", "acciones") THEN "SinVocabularioAcciones"
  ELSE IF ~HasSection(config, "puntuacion", "modulo") THEN "SinPuntuacionModulo"
  ELSE IF ~HasSection(config, "puntuacion", "accion") THEN "SinPuntuacionAccion"
  ELSE "ok"

\* new ConfigLoader(config)
newConfigLoader(config, origen) ==
  IF validateConfig(config) = "ok"
  THEN [ kind |-> "started", config |-> config, origen |-> origen ]
  ELSE Thrown(validateConfig(config))

\* The configuration of createFallbackConfig
FallbackConfig ==
  [ version |-> "1.0.0-fallback",
    settings |-> [ umbralMinimoConfianza |-> 200 ],
    normalizacion |->
      [ correccionesOrtograficas |-> << >>, eliminarPalabras |-> << >>,
        palabrasVacias |-> << >> ],
    vocabulario |-> [ modulos |-> << >>, acciones |-> << >> ],
    patrones |->
      [ detectarAccion |-> << >>, detectarModulo |-> << >>, extraerParametros |-> { } ],
    puntuacion |->
      [ modulo |-> [ coincidenciaExacta |-> 1000, coincidenciaPalabraCompleta |-> 1000,
                     coincidenciaParcial |-> 500, palabraRelacionada |-> 200,
                     umbralMinimo |-> 500 ],
        accion |-> [ coincidenciaExacta |-> 1000, coincidenciaPalabraCompleta |-> 1000,
                     coincidenciaParcial |-> 500, expresionTipica |-> 500,
                     umbralMinimo |-> 500 ] ],
    defaults |-> [ moduloPorDefecto |-> "VENTAS", accionPorDefecto |-> "READ" ] ]

createFallbackConfig == newConfigLoader(FallbackConfig, "fallback")

\* What a path of the file system holds: no file, a file that is not JSON, or
\* a parsed configuration object
NoFile == [ file |-> "missing" ]
BadJson == [ file |-> "unparsable" ]
Parsed(config) == [ file |-> "json", config |-> config ]

\* IALocalService.loadConfigFromFile: every exception of the try block, the
\* one of validateConfig included, is answered with the fallback configuration.
loadConfigFromFile(disk) ==
  IF disk.file # "json" THEN createFallbackConfig
  ELSE IF newConfigLoader(disk.config, "file").kind = "error" THEN createFallbackConfig
  ELSE newConfigLoader(disk.config, "file")

\* new IALocalService(config?): NoFile stands for the absent argument
newIALocalService(config, disk) ==
  IF config # NoFile THEN newConfigLoader(config.config, "argument")
  ELSE loadConfigFromFile(disk)

\* createIALocalService(configPath?): atPath is what configPath holds, NoPath
\* when no path is given; the empty catch swallows every exception of the
\* try block and the service is then built from the default file.
NoPath == [ file |-> "nopath" ]

createIALocalService(atPath, disk) ==
  IF atPath = NoPath \/ atPath.file # "json" THEN newIALocalService(NoFile, disk)
  ELSE IF newIALocalService(atPath, disk).kind = "error" THEN newIALocalService(NoFile, disk)
  ELSE newIALocalService(atPath, disk)

(***************************************************************************)
(* The functions of the engine, applied to inputs chosen at the start       *)
(***************************************************************************)

\* Bounds on the texts given to the functions
MaxTextLen == 4
MaxScoreLen == 2

TextsOver(words, n) == UNION { [1..k -> words] : k \in 0..n }

\* Texts to normalise: words, stop words, a misspelling, a filler word
NormTexts == TextsOver({ "crear", "el", "de", "cliente", "crera", "porfavor" }, MaxTextLen)

\* Normalisation sections: the one loaded, and one whose second correction
\* produces the key of the first
NormConfigs ==
  { Config.normalizacion,
    [ correccionesOrtograficas |-> << <<"clente", "cliente">>, <<"crera", "clente">> >>,
      eliminarPalabras |-> << "porfavor" >>,
      palabrasVacias |-> << "el", "de" >> ] }

\* Texts to score and weights to score them with
ScoreTexts == TextsOver({ "cliente", "clientes", "venta", "monto", "listar" }, MaxScoreLen)

ScoreWeights ==
  [ coincidenciaExacta : { 500, 1000 }, coincidenciaPalabraCompleta : { 500, 1000 },
    coincidenciaParcial : { 250, 500 }, palabraRelacionada : { 200 },
    umbralMinimo : { 500 } ]

\* Lists of allowed modules, the empty one included
ModuleLists ==
  { << >>, << "VENTAS" >>, << "CLINICO" >>, << "VENTAS", "CLINICO" >>,
    << "CLINICO", "VENTAS" >> }

\* Configuration objects: the loaded one with any of its sections missing, and
\* one whose vocabulary has no actions
ConfigObjects ==
  { [ f \in S |-> Config[f] ] : S \in SUBSET DOMAIN Config }
    \cup { [ Config EXCEPT !.vocabulario = [ modulos |-> Config.vocabulario.modulos ] ] }

Files == { NoFile, BadJson } \cup { Parsed(c) : c \in ConfigObjects }

PathArguments ==
  { NoPath, NoFile, BadJson, Parsed(Config),
    Parsed([ f \in DOMAIN Config \ { "patrones" } |-> Config[f] ]),
    Parsed([ f \in DOMAIN Config \ { "vocabulario" } |-> Config[f] ]) }

\* Texts in which two modules, or two actions, score the same
TieTexts ==
  { << "cliente", "paciente" >>, << "listar", "crear" >>, << "listar", "ventas" >>,
    << "paciente" >>, << "listar" >>, << "gemini" >> }

\* A second endpoint of VENTAS/READ, described as the first one is
EpListarVentasV1 ==
  [ EpListarVentas EXCEPT !.endpoint = "/api/v1/ventas",
                          !.partes = << "api", "v1", "ventas" >> ]

\* Lists of candidate endpoints as getEndpoints can return them
CandidateLists ==
  { << >>, << EpListarVentas >>,
    << EpListarVentas, EpListarVentasV1 >>, << EpListarVentasV1, EpListarVentas >>,
    << EpCrearCliente, EpListarVentas >> }

(***************************************************************************)
(* DeepSeekRawService: the answer of the model checked against the API     *)
(* configuration                                                           *)
(***************************************************************************)

accionesDisponibles == << "leer", "crear", "actualizar", "eliminar" >>

\* The configuration that cargarConfiguracion returns (interface
\* ConfiguracionAPI).  A parametro with esObjeto is a container whose
\* propiedades are listed.
ConfiguracionAPI ==
  [ empresa |-> [ nombre |-> "ACME", baseUrl |-> "http://erp" ],
    modulos |-> <<
      [ nombre |-> "Ventas",
        leer |-> <<
          [ id |-> 1, endpoint |-> "/ventas", metodo |-> "GET",
            parametros |-> << [ nombre |-> "desde", opcional |-> TRUE,
                                esObjeto |-> FALSE, propiedades |-> << >> ] >> ] >>,
        crear |-> <<
          [ id |-> 2, endpoint |-> "/ventas/nueva", metodo |-> "POST",
            parametros |-> <<
              [ nombre |-> "venta", opcional |-> FALSE, esObjeto |-> TRUE,
                propiedades |-> << [ nombre |-> "monto", opcional |-> FALSE ],
                                   [ nombre |-> "nota", opcional |-> TRUE ] >> ] >> ] >>,
        actualizar |-> << >>, eliminar |-> << >> ],
      [ nombre |-> "VentasOnline", leer |-> << >>, crear |-> << >>,
        actualizar |-> << >>,
        eliminar |-> <<
          [ id |-> 3, endpoint |-> "/online/ventas", metodo |-> "DELETE",
            parametros |-> << [ nombre |-> "codigo", opcional |-> FALSE,
                                esObjeto |-> FALSE, propiedades |-> << >> ] >> ] >> ],
      [ nombre |-> "Clinico",
        leer |-> <<
          [ id |-> 4, endpoint |-> "/pacientes", metodo |-> "GET",
            parametros |-> << [ nombre |-> "nombre", opcional |-> FALSE,
                                esObjeto |-> FALSE, propiedades |-> << >> ] >> ] >>,
        crear |-> << >>, actualizar |-> << >>, eliminar |-> << >> ] >> ]

modulosDisponibles ==
  [ i \in DOMAIN ConfiguracionAPI.modulos |-> ConfiguracionAPI.modulos[i].nombre ]

\* !respuesta.campo: the field is undefined or the empty string
Falsy(respuesta, campo) == campo \notin DOMAIN respuesta \/ respuesta[campo] = ""

\* Array.prototype.flatMap(m => m.endpoints)
RECURSIVE FlatEndpoints(_)
FlatEndpoints(data) ==
  IF data = << >> THEN << >> ELSE Head(data).endpoints \o FlatEndpoints(Tail(data))

\* The first entry of mapaAcciones (in insertion order) whose key equals, is
\* contained in or contains the action; "" when there is none
accionExacta(accionStr) ==
  LET mapaAcciones ==
        << << "leer", "leer" >>, << "lee", "leer" >>, << "read", "leer" >>,
           << "listar", "leer" >>, << "obtener", "leer" >>, << "crear", "crear" >>,
           << "create", "crear" >>, << "nuevo", "crear" >>,
           << "actualizar", "actualizar" >>, << "update", "actualizar" >>,
           << "editar", "actualizar" >>, << "eliminar", "eliminar" >>,
           << "delete", "eliminar" >>, << "borrar", "eliminar" >> >>
      accionLower == Lower(accionStr)
      hits == { i \in DOMAIN mapaAcciones :
                  \/ Includes(accionLower, mapaAcciones[i][1])
                  \/ Includes(mapaAcciones[i][1], accionLower) }
  IN  IF hits = {} THEN ""
      ELSE mapaAcciones[CHOOSE i \in hits : \A j \in hits : i <= j][2]

\* Modules whose lowercased name contains the lowercased moduloStr, each with
\* its endpoints of the action, modules without any left out
RECURSIVE EndpointsDeModulos(_, _, _)
EndpointsDeModulos(modulos, moduloLower, accion) ==
  IF modulos = << >> THEN << >>
  ELSE LET modulo == Head(modulos)
           rest == EndpointsDeModulos(Tail(modulos), moduloLower, accion)
       IN  IF Includes(Lower(modulo.nombre), moduloLower) /\ modulo[accion] # << >>
           THEN << [ modulo |-> modulo.nombre, accion |-> accion,
                     endpoints |-> modulo[accion] ] >> \o rest
           ELSE rest

\* obtenerEndpointsPorModuloYAccion(moduloStr, accionStr) of the API
\* configuration
obtenerEndpointsPorModuloYAccion(moduloStr, accionStr) ==
  LET accion == accionExacta(accionStr)
  IN  IF accion = "" THEN [ success |-> FALSE, data |-> << >> ]
      ELSE LET resultado == EndpointsDeModulos(ConfiguracionAPI.modulos,
                                               Lower(moduloStr), accion)
           IN  [ success |-> resultado # << >>, data |-> resultado ]

\* DeepSeekRawService.obtenerEndpointsPorModuloYAccion(modulo, accion)
endpointsPorModuloYAccion(modulo, accion) ==
  LET resultado == obtenerEndpointsPorModuloYAccion(modulo, accion)
  IN  IF resultado.success THEN FlatEndpoints(resultado.data) ELSE << >>

validarModulo(modulo) ==
  IF modulo = "" THEN [ valido |-> FALSE, mensaje |-> "NoEspecificasteModulo" ]
  ELSE IF modulo \notin Range(modulosDisponibles)
       THEN [ valido |-> FALSE, mensaje |-> "ModuloNoExiste" ]
       ELSE [ valido |-> TRUE ]

validarAccion(accion) ==
  IF accion = "" THEN [ valido |-> FALSE, mensaje |-> "NoEspecificasteAccion" ]
  ELSE IF accion \notin Range(accionesDisponibles)
       THEN [ valido |-> FALSE, mensaje |-> "AccionNoValida" ]
       ELSE [ valido |-> TRUE ]

NoEndpoint == [ id |-> 0 ]

\* The first endpoint with the route among the given actions of the module
RECURSIVE EndpointConRuta(_, _, _)
EndpointConRuta(moduloConfig, acciones, ruta) ==
  IF acciones = << >> THEN NoEndpoint
  ELSE LET endpoints == moduloConfig[Head(acciones)]
           found == { i \in DOMAIN endpoints : endpoints[i].endpoint = ruta }
       IN  IF found # {} THEN endpoints[CHOOSE i \in found : \A j \in found : i <= j]
           ELSE EndpointConRuta(moduloConfig, Tail(acciones), ruta)

\* buscarEndpointPorRuta(modulo, ruta): the route is looked up under every
\* action of the module
buscarEndpointPorRuta(modulo, ruta) ==
  LET found == { i \in DOMAIN ConfiguracionAPI.modulos :
                   ConfiguracionAPI.modulos[i].nombre = modulo }
  IN  IF found = {} THEN NoEndpoint
      ELSE EndpointConRuta(ConfiguracionAPI.modulos[CHOOSE i \in found :
                                                      \A j \in found : i <= j],
                           accionesDisponibles, ruta)

\* The first parametro of the endpoint that the payload does not satisfy
RECURSIVE PrimerFallo(_, _)
PrimerFallo(parametros, payload) ==
  IF parametros = << >> THEN "Estructura valida"
  ELSE LET param == Head(parametros)
       IN  IF param.esObjeto
           THEN IF param.nombre \notin DOMAIN payload THEN "FaltaContenedor"
                ELSE IF \E i \in DOMAIN param.propiedades :
                          /\ ~param.propiedades[i].opcional
                          /\ param.propiedades[i].nombre
                               \notin DOMAIN payload[param.nombre]
                     THEN "FaltaPropiedadObligatoria"
                     ELSE PrimerFallo(Tail(parametros), payload)
           ELSE IF ~param.opcional /\ param.nombre \notin DOMAIN payload
                THEN "FaltaCampoObligatorio"
                ELSE PrimerFallo(Tail(parametros), payload)

validarEstructuraPayload(endpoint, payload) ==
  LET mensaje == PrimerFallo(endpoint.parametros, payload)
  IN  [ valido |-> mensaje = "Estructura valida", mensaje |-> mensaje ]

\* procesarAccion(mensajeUsuario, respuestaIA)
procesarAccion(respuestaIA) ==
  IF Falsy(respuestaIA, "modulo")
  THEN [ tipo |-> "ACCION", mensaje |-> "EnQueModulo", requiereFiltros |-> TRUE ]
  ELSE IF ~validarModulo(respuestaIA.modulo).valido
  THEN [ tipo |-> "ACCION", mensaje |-> validarModulo(respuestaIA.modulo).mensaje,
         requiereFiltros |-> TRUE, modulo |-> respuestaIA.modulo ]
  ELSE
  LET modulo == respuestaIA.modulo
      accion == IF Falsy(respuestaIA, "accion") THEN "leer" ELSE respuestaIA.accion
      propuesto == IF Falsy(respuestaIA, "endpoint") THEN NoEndpoint
                   ELSE buscarEndpointPorRuta(modulo, respuestaIA.endpoint)
      endpoints == endpointsPorModuloYAccion(modulo, accion)
      endpoint == IF propuesto # NoEndpoint THEN propuesto
                  ELSE IF endpoints = << >> THEN NoEndpoint ELSE endpoints[1]
  IN  IF ~validarAccion(accion).valido
      THEN [ tipo |-> "ACCION", mensaje |-> validarAccion(accion).mensaje,
             requiereFiltros |-> TRUE, modulo |-> modulo, accion |-> accion ]
      ELSE IF endpoint = NoEndpoint
      THEN [ tipo |-> "ACCION", mensaje |-> "NoEncontreEndpoints",
             requiereFiltros |-> TRUE, modulo |-> modulo, accion |-> accion ]
      ELSE IF "payload" \notin DOMAIN respuestaIA \/ DOMAIN respuestaIA.payload = {}
      THEN [ tipo |-> "ACCION", mensaje |-> "NoPudeDeterminarFiltros",
             requiereFiltros |-> TRUE, modulo |-> modulo, accion |-> accion,
             endpoint |-> endpoint.endpoint, method |-> endpoint.metodo ]
      ELSE LET validacionPayload ==
                 validarEstructuraPayload(endpoint, respuestaIA.payload)
           IN  IF ~validacionPayload.valido
               THEN [ tipo |-> "ACCION", mensaje |-> validacionPayload.mensaje,
                      requiereFiltros |-> TRUE, modulo |-> modulo, accion |-> accion,
                      endpoint |-> endpoint.endpoint, method |-> endpoint.metodo,
                      payload |-> respuestaIA.payload ]
               ELSE [ tipo |-> "ACCION", mensaje |-> "Voy",
                      modulo |-> modulo, accion |-> accion,
                      endpoint |-> endpoint.endpoint,
                      urlCompleta |-> << ConfiguracionAPI.empresa.baseUrl,
                                         endpoint.endpoint >>,
                      payload |-> respuestaIA.payload, method |-> endpoint.metodo,
                      requiereFiltros |-> FALSE, endpointId |-> endpoint.id ]

\* Answers of the model, as JSON.parse leaves them: any field may be missing
RespuestasIA ==
  { [ f \in S |-> r[f] ] :
      S \in { D \in SUBSET { "modulo", "accion", "endpoint", "payload" } :
                Cardinality(D) >= 3 },
      r \in [ modulo : { "", "Compras", "Ventas", "Clinico" },
              accion : { "", "borrar", "leer", "crear", "eliminar" },
              endpoint : { "/ventas", "/ventas/nueva", "/pacientes", "/nada" },
              payload : { << >>, [ desde |-> 1 ], [ venta |-> [ monto |-> 10 ] ],
                          [ venta |-> [ nota |-> 1 ] ], [ nombre |-> 1 ],
                          [ codigo |-> 1 ] } ] }

EngineInputs ==
  { [ path |-> "input", op |-> "normalizarTexto", normalizacion |-> n, texto |-> x,
      veces |-> 0 ] : n \in NormConfigs, x \in NormTexts }
  \cup
  { [ path |-> "input", op |-> "calcularPuntuacionModulo", cfg |-> w, texto |-> x,
      modulo |-> m, palabra |-> p ] :
      w \in ScoreWeights, x \in ScoreTexts, m \in { "VENTAS", "CLINICO" },
      p \in { "cliente", "venta", "paciente" } }
  \cup
  { [ path |-> "input", op |-> "interpretModuleCRUD", message |-> x, modulos |-> l ] :
      x \in Messages, l \in ModuleLists }
  \cup
  { [ path |-> "input", op |-> "createIALocalService", atPath |-> a, disk |-> d ] :
      a \in PathArguments, d \in Files }
  \cup
  { [ path |-> "input", op |-> "newIALocalService", config |-> Parsed(c) ] :
      c \in ConfigObjects }
  \cup
  { [ path |-> "input", op |-> "detectarMejor", texto |-> x, modulos |-> l ] :
      x \in TieTexts, l \in ModuleLists }
  \cup
  { [ path |-> "input", op |-> "interpretEndpoint", message |-> x, endpoints |-> e,
      module |-> "VENTAS", action |-> "READ" ] :
      x \in TieTexts, e \in CandidateLists }
  \cup
  { [ path |-> "input", op |-> "procesarAccion", respuestaIA |-> r ] :
      r \in RespuestasIA }

InitEngine ==
  /\ pendingSessions = << >>
  /\ idCounter = 0
  /\ now = 0
  /\ nextSweep = SWEEP_INTERVAL
  /\ motor = "LOCAL"
  /\ waiting = {}
  /\ handled \in EngineInputs

\* normalizarTexto, applied to the text or to its own result
Normalizar ==
  /\ handled.op = "normalizarTexto"
  /\ handled.veces < 2
  /\ handled' = [ handled EXCEPT !.path = "done",
                                 !.texto = normalizarTextoCon(handled.normalizacion, @),
                                 !.veces = @ + 1 ]
  /\ UNCHANGED << pendingSessions, idCounter, now, nextSweep, motor, waiting >>

\* calcularPuntuacionModulo on the text
Puntuar ==
  /\ handled.op = "calcularPuntuacionModulo"
  /\ handled.path = "input"
  /\ handled' = [ path |-> "scored", op |-> handled.op, cfg |-> handled.cfg,
                  texto |-> handled.texto, modulo |-> handled.modulo,
                  palabra |-> handled.palabra,
                  puntuacion |-> calcularPuntuacionModuloCon(handled.cfg, handled.texto,
                                                             handled.modulo) ]
  /\ UNCHANGED << pendingSessions, idCounter, now, nextSweep, motor, waiting >>

\* The text gets one more occurrence of a keyword of the module that it
\* already matches, and is scored again
Extender ==
  /\ handled.op = "calcularPuntuacionModulo"
  /\ handled.path = "scored"
  /\ handled.palabra \in Range(getPalabrasClaveModulo(handled.modulo))
  /\ Partial(ToLower(handled.texto), handled.palabra)
  /\ handled' = [ path |-> "extended", op |-> handled.op, cfg |-> handled.cfg,
                  texto |-> handled.texto \o << handled.palabra >>,
                  modulo |-> handled.modulo, palabra |-> handled.palabra,
                  anterior |-> handled.puntuacion,
                  puntuacion |-> calcularPuntuacionModuloCon(handled.cfg,
                                   handled.texto \o << handled.palabra >>, handled.modulo) ]
  /\ UNCHANGED << pendingSessions, idCounter, now, nextSweep, motor, waiting >>

\* The three classifiers of the module on the same message and module list
Clasificar ==
  /\ handled.op = "interpretModuleCRUD"
  /\ handled.path = "input"
  /\ handled' = [ path |-> "done", op |-> handled.op, message |-> handled.message,
                  modulos |-> handled.modulos,
                  mejorModulo |-> detectarMejorModulo(normalizarTexto(handled.message),
                                                      handled.modulos),
                  moduleCRUD |-> [ kind |-> "ok" ] @@
                                 interpretModuleCRUD(handled.message, handled.modulos),
                  estricto |-> interpretModuleCRUDEstricto(handled.message,
                                                           handled.modulos) ]
  /\ UNCHANGED << pendingSessions, idCounter, now, nextSweep, motor, waiting >>

\* createIALocalService(configPath?)
Construir ==
  /\ handled.op = "createIALocalService"
  /\ handled.path = "input"
  /\ handled' = [ path |-> "done", op |-> handled.op, atPath |-> handled.atPath,
                  disk |-> handled.disk,
                  out |-> createIALocalService(handled.atPath, handled.disk) ]
  /\ UNCHANGED << pendingSessions, idCounter, now, nextSweep, motor, waiting >>

\* new IALocalService(config)
ConstruirCon ==
  /\ handled.op = "newIALocalService"
  /\ handled.path = "input"
  /\ handled' = [ path |-> "done", op |-> handled.op, config |-> handled.config,
                  out |-> newIALocalService(handled.config, NoFile) ]
  /\ UNCHANGED << pendingSessions, idCounter, now, nextSweep, motor, waiting >>

\* detectarMejorModulo, detectarMejorAccion and interpretModuleCRUD on a text
Detectar ==
  /\ handled.op = "detectarMejor"
  /\ handled.path = "input"
  /\ handled' = [ path |-> "done", op |-> handled.op, texto |-> handled.texto,
                  modulos |-> handled.modulos,
                  mejorModulo |-> detectarMejorModulo(normalizarTexto(handled.texto),
                                                      handled.modulos),
                  mejorAccion |-> detectarMejorAccion(normalizarTexto(handled.texto)),
                  moduleCRUD |-> interpretModuleCRUD(handled.texto, handled.modulos) ]
  /\ UNCHANGED << pendingSessions, idCounter, now, nextSweep, motor, waiting >>

\* interpretEndpoint on a list of candidates
Seleccionar ==
  /\ handled.op = "interpretEndpoint"
  /\ handled.path = "input"
  /\ handled' = [ path |-> "done", op |-> handled.op, message |-> handled.message,
                  endpoints |-> handled.endpoints, module |-> handled.module,
                  action |-> handled.action,
                  out |-> interpretEndpointEntre(handled.message, handled.endpoints,
                                                 handled.module, handled.action) ]
  /\ UNCHANGED << pendingSessions, idCounter, now, nextSweep, motor, waiting >>

\* procesarAccion on an answer of the model
Procesar ==
  /\ handled.op = "procesarAccion"
  /\ handled.path = "input"
  /\ handled' = [ path |-> "done", op |-> handled.op,
                  respuestaIA |-> handled.respuestaIA,
                  out |-> procesarAccion(handled.respuestaIA) ]
  /\ UNCHANGED << pendingSessions, idCounter, now, nextSweep, motor, waiting >>

NextEngine ==
  \/ Normalizar
  \/ Puntuar
  \/ Extender
  \/ Clasificar
  \/ Construir
  \/ ConstruirCon
  \/ Detectar
  \/ Seleccionar
  \/ Procesar

SpecEngine == InitEngine /\ [][NextEngine]_vars

(***************************************************************************)
(* The session store over unbounded time                                   *)
(***************************************************************************)

\* The service reads the clock only in differences (now - timestamp, the
\* period of the timer), so the present is kept at the same reading and a
\* minute that passes moves every stored timestamp and the timer one minute
\* back instead.

TimerMessages ==
  { << "crear", "cliente" >>, << "nombre", "ACME" >>, << "monto", "500" >>, << "listar" >> }

\* A minute passes while the timer is not due
Elapse ==
  /\ now < nextSweep
  /\ nextSweep' = nextSweep - 1
  /\ pendingSessions' =
       [ s \in DOMAIN pendingSessions |->
           [ pendingSessions[s] EXCEPT !.timestamp = @ - 1 ] ]
  /\ UNCHANGED << idCounter, now, motor, waiting, handled >>

NextTimer ==
  \/ \E m \in TimerMessages, s \in SessionIdsKnown : Request(m, CtxTodo, s)
  \/ Sweep
  \/ Elapse

\* Time passes and the interval timer fires when it is due; nothing obliges a
\* client to send a request.
SpecTimer == Init /\ [][NextTimer]_vars /\ WF_vars(Elapse) /\ WF_vars(Sweep)

(***************************************************************************)
(* Properties                                                              *)
(***************************************************************************)

\* POST /ia/interpret: what the route sends back for the request handled last
finalOutput == respond(handled.out, handled.context)

\* A step in which a request is answered: neither the clock nor the timer moves.
RequestStep == now' = now /\ nextSweep' = nextSweep /\ handled'.path # "none"

\* The session a follow-up found, before the step
FoundSession == pendingSessions[handled'.sessionId]

\* The payload of that session after the step, or of the action it resolved to
PayloadAfter ==
  IF handled'.sessionId \in DOMAIN pendingSessions'
  THEN pendingSessions'[handled'.sessionId].originalResult.payload
  ELSE handled'.out.payload

\* C1: no update of a session is lost.  Handlers of follow-ups run one at a
\* time, so every interleaving of two follow-ups is one of their two orders;
\* in each step of a follow-up every value the session already holds is kept
\* and every value the message supplies is added, in the session or in the
\* action the follow-up resolves.
C1_FollowUpsKeepBothValues ==
  [][ RequestStep /\ handled'.path = "followup" =>
        LET before == FoundSession.originalResult.payload
            given == extractParametersFromMessage(handled'.message,
                                                  FoundSession.missingParams)
        IN  \A i \in DOMAIN before :
              /\ ~IsEmptyValue(before[i].v)
                   => ValueOf(PayloadAfter, before[i].k) = before[i].v
              /\ before[i].k \in DOMAIN given
                   => ValueOf(PayloadAfter, before[i].k) = given[before[i].k]
    ]_vars

\* C1, reached: a follow-up that supplies only monto completes a session whose
\* nombre was supplied by an earlier follow-up, and the action has both.
C1_Witness ==
  /\ handled.path = "followup"
  /\ handled.out.kind = "result"
  /\ handled.message = << "monto", "500" >>
  /\ ValueOf(handled.out.payload, "nombre") = << "ACME" >>
  /\ ValueOf(handled.out.payload, "monto") = << "500" >>

\* C2: in every stored session, missingParams names exactly the keys of the
\* payload whose value is undefined, null, "" or "?", each once.
C2_MissingParamsMatchPayload ==
  \A s \in DOMAIN pendingSessions :
    LET payload == pendingSessions[s].originalResult.payload
        missing == pendingSessions[s].missingParams
        empty == { i \in DOMAIN payload : payload[i].v \in { Null, << >>, << "?" >> } }
    IN  /\ { missing[j].param : j \in DOMAIN missing } = { payload[i].k : i \in empty }
        /\ Len(missing) = Cardinality(empty)

\* C2, reached: after a follow-up a session holds nombre and still misses
\* monto, whose value is the placeholder.
C2_Witness ==
  /\ handled.path = "followup"
  /\ handled.out.kind = "needs"
  /\ \E s \in DOMAIN pendingSessions :
       /\ ValueOf(pendingSessions[s].originalResult.payload, "nombre") = << "ACME" >>
       /\ ValueOf(pendingSessions[s].originalResult.payload, "monto") = << "?" >>
       /\ Len(pendingSessions[s].missingParams) = 1

\* C3: a request bearing the id of a session older than SESSION_TIMEOUT is
\* handled by the fresh pipeline, whether or not the sweep has run.
C3_ExpiredSessionHandledFresh ==
  [][ /\ RequestStep
      /\ handled'.sessionId \in DOMAIN pendingSessions
      /\ now - FoundSession.timestamp > SESSION_TIMEOUT
      => handled'.path = "fresh"
    ]_vars

\* C4: a follow-up that leaves parameters missing does not extend the life of
\* the session: the time from which the sweep measures its age stays the time
\* of its creation.
C4_PartialFollowUpKeepsLifetime ==
  [][ /\ RequestStep
      /\ handled'.path = "followup"
      /\ handled'.sessionId \in DOMAIN pendingSessions'
      => pendingSessions'[handled'.sessionId].timestamp = FoundSession.timestamp
    ]_vars

\* C5: a result of the local engine whose confidence is below the gate is
\* never handed back as a resolved action (results of Gemini carry no
\* confidence).
C5_LowConfidenceNeverReturned ==
  handled.path # "none" /\ handled.out.kind = "result"
    /\ "confidence" \in DOMAIN handled.out
    => handled.out.confidence >= UMBRAL_CONFIANZA

\* C6: the route sends back a curl only for an action whose module and action
\* the context of that very request allows; any other resolved action is
\* rejected without curl.
C6_OnlyPermittedActionsHandedBack ==
  handled.path # "none" =>
    /\ finalOutput.success =>
         /\ handled.out.kind = "result"
         /\ handled.out.module \in Range(handled.context.permisos.modulos)
         /\ handled.out.action \in handled.context.permisos.acciones
    /\ ( /\ handled.out.kind = "result"
         /\ \/ handled.out.module \notin Range(handled.context.permisos.modulos)
            \/ handled.out.action \notin handled.context.permisos.acciones )
       => ~finalOutput.success /\ finalOutput.curl = ""

\* C6, reached: a follow-up sent under a context that does not allow the
\* module completes a session created under another context, and is rejected.
C6_Witness ==
  /\ handled.path = "followup"
  /\ handled.out.kind = "result"
  /\ handled.out.module \notin Range(handled.context.permisos.modulos)
  /\ finalOutput.error = "PERMISO_MODULO_DENEGADO"

\* C7: a fresh READ request that the local engine resolves with confidence at
\* or above the gate is resolved at once, its empty filter left empty, and is
\* not made to wait for parameters.
C7_ReadWithEmptyFilterResolved ==
  /\ handled.path = "fresh"
  /\ LocalTable[handled.message, handled.context].kind = "result"
  /\ LocalTable[handled.message, handled.context].confidence >= UMBRAL_CONFIANZA
  /\ LocalTable[handled.message, handled.context].action = "READ"
  => handled.out = LocalTable[handled.message, handled.context]

\* C8: the follow-up that leaves no parameter missing returns the resolved
\* action and deletes the session in that same step, and a request bearing the
\* id of no stored session is handled fresh.
C8_CompletionDeletesSession ==
  [][ RequestStep =>
        /\ handled'.sessionId \in DOMAIN pendingSessions =>
             /\ handled'.path = "followup"
             /\ checkMissingParameters(
                  updatePayload(FoundSession.originalResult,
                                extractParametersFromMessage(handled'.message,
                                                             FoundSession.missingParams)))
                  = << >>
                => /\ handled'.out.kind = "result"
                   /\ handled'.sessionId \notin DOMAIN pendingSessions'
             /\ handled'.out.kind = "result"
                => handled'.sessionId \notin DOMAIN pendingSessions'
        /\ handled'.sessionId \notin DOMAIN pendingSessions => handled'.path = "fresh"
    ]_vars

\* C8, reached: a follow-up has completed its session and the store no longer
\* holds it.
C8_Witness ==
  /\ handled.path = "followup"
  /\ handled.out.kind = "result"
  /\ handled.sessionId \notin DOMAIN pendingSessions

\* Whether no module the caller allows reaches the acceptance threshold of
\* modules for the message
NoAllowedModuleReaches ==
  [ m \in Messages, c \in Contexts |->
      \A i \in DOMAIN c.permisos.modulos :
        calcularPuntuacionModulo(normalizarTexto(m), c.permisos.modulos[i])
          < getPuntuacionModulo.umbralMinimo ]

C10_DirectEqualsSplit ==
  \A c \in Contexts, first \in Messages, second \in Messages, third \in Messages :
    (first \o second \o third) \in Messages =>
      LET direct == interpret(first \o second \o third, c, NoSession,
                              pendingSessions, idCounter, now)
          one == interpret(first, c, NoSession, pendingSessions, idCounter, now)
          two == interpret(second, c, one.out.sessionId, one.store, one.counter, now)
          three == interpret(third, c, one.out.sessionId, two.store, two.counter, now)
      IN  /\ direct.out.kind = "result"
          /\ one.out.kind = "needs"
          /\ two.out.kind = "needs"
          /\ three.out.kind = "result"
          => /\ three.out.module = direct.out.module
             /\ three.out.action = direct.out.action
             /\ three.out.endpoint = direct.out.endpoint
             /\ three.out.method = direct.out.method
             /\ three.out.payload = direct.out.payload

\* C11: normalizarTexto is idempotent: applied to its own result, under the
\* same normalisation section, it gives that result again.
C11_NormalizarTextoIdempotent ==
  [][ /\ handled.op = "normalizarTexto"
      /\ handled.veces = 1
      /\ handled'.veces = 2
      => handled'.texto = handled.texto
    ]_vars

\* C12: a text extended with one more occurrence of a keyword of the module
\* that it already matches never scores lower than before, whatever the
\* weights.
C12_ExtensionNeverLowersScore ==
  handled.op = "calcularPuntuacionModulo" /\ handled.path = "extended"
    => handled.puntuacion >= handled.anterior

\* C13: with an empty list of allowed modules every classifier answers the
\* configured default module and none throws.
C13_EmptyModulesGiveDefault ==
  /\ handled.op = "interpretModuleCRUD"
  /\ handled.path = "done"
  /\ handled.modulos = << >>
  => /\ handled.mejorModulo.kind = "ok"
     /\ handled.mejorModulo.modulo = getModuloPorDefecto
     /\ handled.moduleCRUD.kind = "ok"
     /\ handled.moduleCRUD.module = getModuloPorDefecto
     /\ handled.estricto.kind = "ok"
     /\ handled.estricto.module = getModuloPorDefecto

\* The sections without which the engine must not start
RequiredSections == { "settings", "vocabulario", "patrones", "puntuacion" }

\* The configuration behind a path cannot be loaded, or lacks a required section
Incomplete(file) ==
  \/ file.file # "json"
  \/ \E sec \in RequiredSections : sec \notin DOMAIN file.config
  \/ validateConfig(file.config) # "ok"

\* C14: construction of the engine from a configuration that cannot be loaded
\* or that lacks a required section fails; no service is handed back.
C14_PartialConfigurationIsFatal ==
  handled.path = "done" =>
    /\ handled.op = "createIALocalService" =>
         ( Incomplete(IF handled.atPath = NoPath THEN handled.disk ELSE handled.atPath)
           => handled.out.kind = "error" )
    /\ handled.op = "newIALocalService" =>
         ( Incomplete(handled.config) => handled.out.kind = "error" )

\* What interpretModuleCRUD and interpretEndpoint select for every request of
\* the model, computed apart from any store
EndpointTable ==
  [ m \in Messages, c \in Contexts |->
      interpretEndpoint(m, c.erp, interpretModuleCRUD(m, c.permisos.modulos).module,
                        interpretModuleCRUD(m, c.permisos.modulos).action) ]

\* The result of the engine that a fresh step handed back or stored
Selected ==
  IF handled'.out.kind = "needs"
  THEN pendingSessions'[handled'.out.sessionId].originalResult
  ELSE handled'.out

C16_UnknownSessionIdSameAsNone ==
  [][ /\ RequestStep
      /\ handled'.sessionId # NoSession
      /\ handled'.sessionId \notin DOMAIN pendingSessions
      => LET same == interpret(handled'.message, handled'.context, NoSession,
                               pendingSessions, idCounter, now)
         IN  /\ handled'.out = same.out
             /\ pendingSessions' = same.store
    ]_vars

C18_FirstWriteNeverOverwrites ==
  [][ \A s \in DOMAIN pendingSessions \cap DOMAIN pendingSessions' :
        pendingSessions'[s] # pendingSessions[s]
          => handled'.path = "followup" /\ handled'.sessionId = s
    ]_vars

\* C19: after a run of cleanupExpiredSessions no stored session is older than
\* SESSION_TIMEOUT, and every session that was not older is in the store as it
\* was.
C19_SweepRemovesExactlyTheExpired ==
  [][ nextSweep' > nextSweep =>
        /\ \A s \in DOMAIN pendingSessions' :
             now' - pendingSessions'[s].timestamp <= SESSION_TIMEOUT
        /\ \A s \in DOMAIN pendingSessions :
             now - pendingSessions[s].timestamp <= SESSION_TIMEOUT
               => /\ s \in DOMAIN pendingSessions'
                  /\ pendingSessions'[s] = pendingSessions[s]
    ]_vars

\* C19, reached: the timer has just fired and the session that the last request
\* opened or continued is gone from the store.
C19_Witness ==
  /\ handled.path # "none"
  /\ handled.out.kind = "needs"
  /\ handled.out.sessionId \notin DOMAIN pendingSessions
  /\ nextSweep = now + SWEEP_INTERVAL

\* C20: every session that is in the store is eventually out of it.
C20_EverySessionEventuallyDestroyed ==
  \A s \in 1..MaxSessions :
    (s \in DOMAIN pendingSessions) ~> (s \notin DOMAIN pendingSessions)

\* The pending result a follow-up leaves: the one stored again, or the action
\* it resolved to
ResultAfter ==
  IF handled'.sessionId \in DOMAIN pendingSessions'
  THEN pendingSessions'[handled'.sessionId].originalResult
  ELSE handled'.out

\* C21: a follow-up changes only payload fields that the session lists as
\* missing: the keys of the payload and their order, every field that is not
\* listed, every field that had a value, and the module, action, endpoint and
\* method of the pending result are after the follow-up what they were before.
C21_FollowUpTouchesOnlyMissing ==
  [][ RequestStep /\ handled'.path = "followup" =>
        LET before == FoundSession.originalResult
            listed == { FoundSession.missingParams[j].param :
                          j \in DOMAIN FoundSession.missingParams }
        IN  /\ ResultAfter.module = before.module
            /\ ResultAfter.action = before.action
            /\ ResultAfter.endpoint = before.endpoint
            /\ ResultAfter.method = before.method
            /\ DOMAIN ResultAfter.payload = DOMAIN before.payload
            /\ \A i \in DOMAIN before.payload :
                 /\ ResultAfter.payload[i].k = before.payload[i].k
                 /\ before.payload[i].k \notin listed
                      => ResultAfter.payload[i].v = before.payload[i].v
                 /\ ~IsEmptyValue(before.payload[i].v)
                      => ResultAfter.payload[i].v = before.payload[i].v
    ]_vars

\* C21, reached: a follow-up that supplies only nombre completes a session
\* whose monto an earlier follow-up had supplied, and monto is as it was.
C21_Witness ==
  /\ handled.path = "followup"
  /\ handled.out.kind = "result"
  /\ handled.message = << "nombre", "ACME" >>
  /\ handled.out.endpoint = "/api/ventas/clientes"
  /\ ValueOf(handled.out.payload, "monto") = << "500" >>
  /\ ValueOf(handled.out.payload, "nombre") = << "ACME" >>

\* C22: a fresh request changes the store only when it is answered with a
\* request for parameters, and then only by the one entry stored under the
\* session id of the answer; a fresh request that is resolved, by the local
\* engine or by Gemini, or that fails, leaves the store exactly as it was.
C22_FreshStoresOnlyWhenAwaiting ==
  [][ RequestStep /\ handled' # handled /\ handled'.path \in { "fresh", "gemini" } =>
        /\ handled'.out.kind # "needs" => pendingSessions' = pendingSessions
        /\ handled'.out.kind = "needs" =>
             /\ handled'.out.sessionId \in DOMAIN pendingSessions'
             /\ pendingSessions' = MapSet(pendingSessions, handled'.out.sessionId,
                                          pendingSessions'[handled'.out.sessionId])
    ]_vars

\* C22, reached: a fresh request was resolved from the answer of Gemini while
\* the store held the session of another request, which is still there.
C22_Witness ==
  /\ handled.path = "gemini"
  /\ handled.out.kind = "result"
  /\ pendingSessions # << >>

\* The local engine threw for the request, or answered below the gate
LocalFellShort(message, context) ==
  \/ LocalTable[message, context].kind = "error"
  \/ LocalTable[message, context].confidence < UMBRAL_CONFIANZA

\* C23: Gemini is called only for a request for which the local engine has run
\* and has thrown or answered with a confidence below the gate: every handler
\* that awaits Gemini holds that answer of the local engine, and no request
\* that the local engine answers at or above the gate is answered from Gemini.
C23_GeminiOnlyAfterLocalFellShort ==
  /\ \A w \in waiting :
       /\ w.localResult = LocalTable[w.message, w.context]
       /\ LocalFellShort(w.message, w.context)
  /\ handled.path = "gemini" => LocalFellShort(handled.message, handled.context)

\* C23, reached: the local engine answered below the gate, and the handler
\* awaits Gemini with that answer in hand.
C23_Witness ==
  \E w \in waiting :
    /\ w.localResult.kind = "result"
    /\ w.localResult.confidence < UMBRAL_CONFIANZA

\* C24: the action is classified apart from the module.  When the best action
\* score reaches the threshold of actions the classified action is the detected
\* one, whether or not a module reached its threshold; the default action is
\* classified only when the best action score is below the threshold.
C24_ActionFallsBackOnItsOwn ==
  handled.op = "interpretModuleCRUD" /\ handled.path = "done" =>
    LET best == detectarMejorAccion(normalizarTexto(handled.message))
    IN  IF best.puntuacion >= getPuntuacionAccion.umbralMinimo
        THEN handled.moduleCRUD.action = best.accion
        ELSE handled.moduleCRUD.action = getAccionPorDefecto

\* C25: a module whose own score is below the threshold of modules is never
\* classified on the strength of the action score.  The classifier with
\* defaults answers such a module only as the configured default, when no
\* allowed module reaches the threshold; the classifier without defaults never
\* answers such a module.
C25_WeakModuleNeverWinsOnAction ==
  handled.op = "interpretModuleCRUD" /\ handled.path = "done" =>
    LET msg == normalizarTexto(handled.message)
        Weak(m) == calcularPuntuacionModulo(msg, m) < getPuntuacionModulo.umbralMinimo
    IN  /\ Weak(handled.moduleCRUD.module) =>
             /\ handled.moduleCRUD.module = getModuloPorDefecto
             /\ \A i \in DOMAIN handled.modulos : Weak(handled.modulos[i])
        /\ handled.estricto.kind = "ok" => ~Weak(handled.estricto.module)

\* Position i holds a highest score and every position before it a lower one
FirstOfTheBest(scores, i) ==
  /\ \A j \in DOMAIN scores : scores[j] <= scores[i]
  /\ \A j \in 1..(i - 1) : scores[j] < scores[i]

C27_LowEndpointFailsWithScore ==
  handled.op = "interpretEndpoint" /\ handled.path = "done" =>
    LET t == normalizarTexto(handled.message)
        se == [ i \in DOMAIN handled.endpoints |->
                  scoreTotal(t, handled.endpoints[i], handled.module, handled.action) ]
    IN  /\ handled.out.kind = "ok" => handled.out.confidence >= getUmbralMinimoConfianza
        /\ handled.endpoints = << >> => handled.out = Thrown("NoHayEndpoints")
        /\ ( /\ handled.endpoints # << >>
             /\ \A i \in DOMAIN se : se[i] < getUmbralMinimoConfianza )
           => /\ handled.out.kind = "error"
              /\ "score" \in DOMAIN handled.out
              /\ \E i \in DOMAIN se : FirstOfTheBest(se, i) /\ handled.out.score = se[i]

\* The names of the parameters a session misses
MissingNames(session) ==
  { session.missingParams[j].param : j \in DOMAIN session.missingParams }

\* C28: every session a step leaves in the store misses at least one
\* parameter and has a payload field without value; and a follow-up leaves the
\* set of the names its session misses equal or smaller (empty when the
\* session is completed and deleted), never with a name it did not hold.
C28_StoredSessionsMissSomething ==
  [][ /\ \A s \in DOMAIN pendingSessions' :
           /\ Len(pendingSessions'[s].missingParams) > 0
           /\ \E i \in DOMAIN pendingSessions'[s].originalResult.payload :
                IsEmptyValue(pendingSessions'[s].originalResult.payload[i].v)
      /\ ( /\ RequestStep
           /\ handled'.path = "followup"
           /\ handled'.sessionId \in DOMAIN pendingSessions )
         => IF handled'.sessionId \in DOMAIN pendingSessions'
            THEN MissingNames(pendingSessions'[handled'.sessionId])
                   \subseteq MissingNames(FoundSession)
            ELSE handled'.out.kind = "result"
    ]_vars

\* C28, reached: a follow-up that supplied monto left its session in the store
\* with nombre as the one parameter still missing.
C28_Witness ==
  /\ handled.path = "followup"
  /\ handled.message = << "monto", "500" >>
  /\ handled.out.kind = "needs"
  /\ handled.sessionId \in DOMAIN pendingSessions
  /\ MissingNames(pendingSessions[handled.sessionId]) = { "nombre" }

\* C29: when interpret answers with a request for parameters under session id
\* s, the store it leaves holds s with exactly the parameters of the answer as
\* missingParams; for a follow-up s is the id the caller sent; and an id that
\* the service generates starts with "sess_", so receiveMessage accepts it on
\* the next request.
C29_NeedsAnswerNamesStoredSession ==
  [][ RequestStep /\ handled'.out.kind = "needs" =>
        /\ handled'.out.sessionId \in DOMAIN pendingSessions'
        /\ pendingSessions'[handled'.out.sessionId].missingParams
             = handled'.out.needsParameters
        /\ handled'.path = "followup" => handled'.out.sessionId = handled'.sessionId
        /\ handled'.path = "fresh" /\ handled'.sessionId = NoSession =>
             /\ idCounter' = idCounter + 1
             /\ generateSessionId(idCounter) = << "sess_", handled'.out.sessionId >>
             /\ sessionIdAccepted(generateSessionId(idCounter))
    ]_vars

\* C29, reached: a follow-up that supplied nothing was answered with the
\* parameters its session still misses, under the id the caller sent.
C29_Witness ==
  /\ handled.path = "followup"
  /\ handled.message = << "listar" >>
  /\ handled.out.kind = "needs"
  /\ handled.out.sessionId = handled.sessionId
  /\ handled.sessionId \in DOMAIN pendingSessions
  /\ pendingSessions[handled.sessionId].missingParams = handled.out.needsParameters

\* C30: every executable answer of procesarAccion (requiereFiltros = false)
\* names an endpoint that the configuration lists under the module of the
\* answer and under the action of the answer.
C30_ExecutableNamesConfiguredEndpoint ==
  (handled.op = "procesarAccion" /\ handled.path = "done"
     /\ ~handled.out.requiereFiltros)
    => \E i \in DOMAIN ConfiguracionAPI.modulos :
         /\ ConfiguracionAPI.modulos[i].nombre = handled.out.modulo
         /\ \E k \in DOMAIN ConfiguracionAPI.modulos[i][handled.out.accion] :
              LET ep == ConfiguracionAPI.modulos[i][handled.out.accion][k]
              IN  ep.endpoint = handled.out.endpoint /\ ep.id = handled.out.endpointId

====
